---- MODULE Spec2Model ----
(***************************************************************************)
(* The transcription service of ole-voice: the listener of asr_server.py,  *)
(* its length-prefixed framing, the model cache (load_model) and the       *)
(* background warmup thread.                                               *)
(*                                                                         *)
(* Two server variants ship in the repository:                             *)
(*   VoiceOverlay/asr_server.py               (start_server spawns warmup) *)
(*   oleVoice.app/Contents/Resources/asr_server.py    (no warmup thread)   *)
(* Spec models the first, SpecSeq the second (one thread only).            *)
(*                                                                         *)
(* SpecHot follows the hotword store (load_hotwords) through the requests  *)
(* of one server while the candidate files change between them.            *)
(***************************************************************************)
EXTENDS Integers, Sequences, FiniteSets, TLC

\* ------------------------------------------------------------------ bounds
MaxConns == 3          \* connections the listener accepts in a run
MaxLen == 2            \* longest request payload, in bytes
MaxText == 3           \* longest text the engine recognises in SpecText
MaxRequests == 2       \* requests served in SpecHot
MaxNumber == 9999      \* largest number written as a numeral in SpecNum
MaxYi == 2            \* largest section before the unit 100000000 in SpecLarge
MaxRun == 4           \* longest run of numeral characters in SpecRuns
MaxTokens == 4        \* most tokens in a text given to a stage in SpecStage
MaxApply == 2         \* most calls of a stage in a row in SpecStage

\* ------------------------------------------------------- program constants
HeaderLen == 4         \* conn.recv(4), struct '!I'
RecvMax == 4096        \* conn.recv(min(4096, ...))

ByteVals == {0, 1}     \* byte values used in request payloads
ModelKeys == {"0.6B", "1.7B"}                      \* CONFIG['models'] keys
Threads == {"main", "warmup"}
Texts == {<<>>, <<97>>}    \* texts the engine call can lead to
Variants == {"VoiceOverlay", "oleVoice.app"}
NoVariant == "none"

VARIABLES
    pc,                 \* where each thread stands (start_server/handle_client,
                        \* warmup_model, and load_model inside either)
    conn,               \* the accepted connection and handle_client's locals
    current_model,      \* _current_model       (line 29)
    current_model_key,  \* _current_model_key   (line 30)
    model_key,          \* load_model's parameter, per calling thread
    ret,                \* what mlx_load_model returned, until line 128 stores it
    model,              \* the caller's local `model` (lines 468, 592)
    loader_failed,      \* mlx_load_model has raised at least once
    nconn,              \* connections accepted so far
    prev_faulty,        \* an already closed connection had a failure
    call_loads,         \* handles the loader gave to each thread's current call
    log,                \* key and handle of the last load_model that returned
    files,              \* the candidate hotword files (hotwords_paths, in order)
    hotwords,           \* _hotwords           (line 33)
    hotwords_mtime,     \* _hotwords_mtime     (line 34)
    transcription_kwargs,   \* arguments of the last generate_transcription
    hw_log,             \* what the last load_hotwords call saw, did and returned
    variant,            \* which asr_server.py is running
    CONFIG,             \* CONFIG              (lines 18-26)
    config_file,        \* config.yaml as load_config finds it
    open_conns,         \* connections accepted and not yet closed
    number,             \* a text with a numeral in it, and what the numeral means
    converted,          \* what convert_chinese_numbers made of it
    stage_in,           \* a normalization stage and the text it is called with
    stage_out,          \* what the stage returned, call after call
    socket_file,        \* the server whose bind made the file at socket_path
    server,             \* the server processes started on socket_path
    client,             \* which recording front end is running
    is_recording,       \* is_recording      (voice_input.py line 24)
    recording_thread,   \* recording_thread  (line 25): the latest record_audio thread
    audio_frames,       \* audio_frames      (line 27): each frame, by the thread that captured it
    handler,            \* the hotkey handler invocations
    rec,                \* the record_audio threads
    saved               \* the audio files written, in order

vars == <<pc, conn, current_model, current_model_key,
          model_key, ret, model, loader_failed,
          nconn, prev_faulty, call_loads, log,
          files, hotwords, hotwords_mtime, transcription_kwargs, hw_log, variant, CONFIG, config_file, open_conns, number, converted,
          stage_in, stage_out, socket_file, server,
          client, is_recording, recording_thread, audio_frames, handler, rec, saved>>

\* ------------------------------------------------------------ framing
Min(a, b) == IF a < b THEN a ELSE b

\* struct.pack('!I', n): 4 bytes, most significant first
Pack(n) == << (n \div 16777216) % 256, (n \div 65536) % 256,
              (n \div 256) % 256, n % 256 >>

\* struct.unpack('!I', b)[0]; raises struct.error unless len(b) == 4
UnpackOk(b) == Len(b) = HeaderLen
Unpack(b) == b[1] * 16777216 + b[2] * 65536 + b[3] * 256 + b[4]

\* the frame a client writes for a payload
Encode(payload) == Pack(Len(payload)) \o payload

Take(s, k) == SubSeq(s, 1, k)
Drop(s, k) == SubSeq(s, k + 1, Len(s))

RECURSIVE SeqsUpTo(_)
SeqsUpTo(n) == IF n = 0 THEN {<<>>}
               ELSE SeqsUpTo(n - 1) \cup
                    {Append(s, b) : s \in {x \in SeqsUpTo(n - 1) : Len(x) = n - 1},
                                    b \in ByteVals}
Payloads == SeqsUpTo(MaxLen)

\* json.dumps(result).encode('utf-8'): an object with the key success and
\* the key text or error; the keys and literals are abbreviated to one byte
JsonDumps(r) == IF r.success
                THEN <<123, 115, 1, 116>> \o r.text \o <<125>>
                ELSE <<123, 115, 0, 101>> \o r.error \o <<125>>

\* str(e) of the exceptions that can reach a reply
MsgRecv == <<114>>
MsgStruct == <<117>>
MsgWav == <<119>>
MsgSend == <<112>>
MsgLoad == <<108>>
MsgEngine == <<103>>
MsgHot == <<104>>

Success_EmptyFails(text) == [success |-> text # <<>>, text |-> text, error |-> <<>>]
Success(text) == [success |-> TRUE, text |-> text, error |-> <<>>]
Failure(msg) == [success |-> FALSE, text |-> <<>>, error |-> msg]
NoResult == [success |-> FALSE, text |-> <<>>, error |-> <<45>>]

\* ------------------------------------------------------------ model cache
NoModel == [id |-> 0, key |-> "None", name |-> "None"]
NoKey == "None"

Models == [k \in ModelKeys |->
             IF k = "0.6B" THEN "mlx-community/Qwen3-ASR-0.6B-8bit"
                           ELSE "mlx-community/Qwen3-ASR-1.7B-8bit"]

\* CONFIG['models'].get(model_key, CONFIG['models']['0.6B'])
get_model_path(k) == IF k \in DOMAIN Models THEN Models[k] ELSE Models["0.6B"]

CacheHit_IgnoresKey(m, key, k) == m # NoModel

\* line 121: the cache hit test of load_model
CacheHit(m, key, k) == m # NoModel /\ key = k

\* the identities of the handles something refers to (the last returned one
\* included, so that a later handle can be told from it)
UsedIds == {current_model.id, log.ret.id} \cup {ret[t].id : t \in Threads}
               \cup {model[t].id : t \in Threads}

\* what the loader returns: a new object, whose identity differs from that of
\* every object still referred to (the identity of a freed one may come back)
NewHandle(k) ==
    [id |-> CHOOSE n \in 1..(Cardinality(UsedIds) + 1) :
                n \notin UsedIds /\ \A m \in 1..(n - 1) : m \in UsedIds,
     key |-> k, name |-> get_model_path(k)]

\* the last load_model call that returned: its key and the handle returned
NoEntry == [key |-> NoKey, ret |-> NoModel]

\* ------------------------------------------------------------ hotword store
ContextLimit == 20      \* hotwords[:20]

HotPaths == 1..3        \* hotwords_paths (lines 41-45), in the order tried
Mtimes == {1, 2}        \* modification times a candidate file can carry

\* str.strip() and str.isspace(): the white space of the texts used here
IsSpace(c) == c \in {9, 10, 11, 12, 13, 32, 160, 12288}

RECURSIVE LStrip(_)
LStrip(s) == IF s # <<>> /\ IsSpace(s[1]) THEN LStrip(Tail(s)) ELSE s

RECURSIVE RStrip(_)
RStrip(s) == IF s # <<>> /\ IsSpace(s[Len(s)])
             THEN RStrip(SubSeq(s, 1, Len(s) - 1)) ELSE s

Strip(s) == RStrip(LStrip(s))

\* line 63: "if line.strip() and not line.startswith('#')"
HotLine(line) == Strip(line) # <<>> /\ ~(line # <<>> /\ line[1] = 35)

\* line 63: the stripped lines that pass the test, in file order
RECURSIVE ParseHotwords(_)
ParseHotwords(ls) ==
    IF ls = <<>> THEN <<>>
    ELSE (IF HotLine(ls[1]) THEN <<Strip(ls[1])>> ELSE <<>>)
             \o ParseHotwords(Tail(ls))

\* the contents a candidate file can have, as its lines: a comment, an empty
\* line and two terms; more terms than the context takes; no term at all
HotFileA == << <<35, 120>>, <<>>, <<32, 97, 32>>, <<98>> >>
HotFileB == [i \in 1..(ContextLimit + 1) |-> <<64 + i>>]
HotFileC == << <<35, 120>>, <<>> >>
FileContents == {HotFileA, HotFileB, HotFileC}

NoFile == [exists |-> FALSE, mtime |-> 0, lines |-> <<>>]
AFile(m, ls) == [exists |-> TRUE, mtime |-> m, lines |-> ls]

\* lines 47-51: the first candidate that exists, 0 when there is none
FirstExisting(fs) ==
    IF \E p \in HotPaths : fs[p].exists
    THEN CHOOSE p \in HotPaths :
             fs[p].exists /\ \A q \in HotPaths : q < p => ~fs[q].exists
    ELSE 0

\* None, or a list of terms
NoHotwords == [some |-> FALSE, terms |-> <<>>]
Hot(terms) == [some |-> TRUE, terms |-> terms]

\* how a load_hotwords call can go wrong inside its try block
HotIO == {"ok", "stat_fails", "read_fails"}

CacheFresh_Never(m, hwm, hw) == FALSE

\* line 59: the cached list is returned when the modification time is the
\* stored one and a list is cached
CacheFresh(m, hwm, hw) == m = hwm /\ hw.some

HotwordsErrorEscapes_Yes == TRUE

\* lines 72-74: "except Exception" prints and returns None
HotwordsErrorEscapes == FALSE

\* load_hotwords(): what it returns, the two globals after it, whether it
\* opened the file, whether it read it, whether an exception left it
load_hotwords(fs, hw, hwm, io) ==
    LET f == FirstExisting(fs)
        keep(stat, opened, raised) ==
            [ret |-> NoHotwords, hotwords |-> hw, mtime |-> hwm, path |-> f,
             stat |-> stat, opened |-> opened, read |-> FALSE,
             raised |-> raised]
    IN IF f = 0 THEN keep(FALSE, FALSE, FALSE)               \* lines 53-54
       ELSE IF io = "stat_fails"                             \* line 58
            THEN keep(FALSE, FALSE, HotwordsErrorEscapes)
       ELSE IF CacheFresh(fs[f].mtime, hwm, hw)              \* lines 59-60
            THEN [ret |-> hw, hotwords |-> hw, mtime |-> hwm, path |-> f,
                  stat |-> TRUE, opened |-> FALSE, read |-> FALSE,
                  raised |-> FALSE]
       ELSE IF io = "read_fails"                             \* lines 62-63
            THEN keep(TRUE, TRUE, HotwordsErrorEscapes)
       ELSE LET lines == ParseHotwords(fs[f].lines)          \* lines 62-71
            IN [ret |-> Hot(lines), hotwords |-> Hot(lines),
                mtime |-> fs[f].mtime, path |-> f,
                stat |-> TRUE, opened |-> TRUE, read |-> TRUE,
                raised |-> FALSE]

NoHwLog == [path |-> 0, mtime |-> 0, stat |-> FALSE, opened |-> FALSE, read |-> FALSE,
            ret |-> NoHotwords, source |-> 0]

\* "重要术语: " and the separator of ", ".join
HotLabel == <<37325, 35201, 26415, 35821, 58, 32>>
HotSep == <<44, 32>>

RECURSIVE Join(_, _)
Join(ts, sep) == IF ts = <<>> THEN <<>>
                 ELSE IF Len(ts) = 1 THEN ts[1]
                 ELSE ts[1] \o sep \o Join(Tail(ts), sep)

ContextTerms_All(terms) == terms

\* hotwords[:20]
ContextTerms(terms) == Take(terms, Min(Len(terms), ContextLimit))

NoKwargs == [has_context |-> FALSE, context |-> <<>>]

\* lines 475-478 and 496-497: the context argument, present only when the
\* list is neither None nor empty
Kwargs(h) ==
    IF h.some /\ h.terms # <<>>
    THEN [has_context |-> TRUE,
          context |-> HotLabel \o Join(ContextTerms(h.terms), HotSep)]
    ELSE NoKwargs

\* ------------------------------------------------------------ text stages
\* Texts are sequences of code points. The tables are those of the source.

StartsWith(t, w) == Len(w) <= Len(t) /\ SubSeq(t, 1, Len(w)) = w

\* str.replace(w, r) and re.sub(re.escape(w), r, t): the occurrences of w,
\* found from left to right without overlap, become r
RECURSIVE ReplaceAll(_, _, _)
ReplaceAll(t, w, r) ==
    IF t = <<>> THEN <<>>
    ELSE IF StartsWith(t, w) THEN r \o ReplaceAll(Drop(t, Len(w)), w, r)
    ELSE <<t[1]>> \o ReplaceAll(Tail(t), w, r)

\* the number of leading characters of t that belong to the set cs
RECURSIVE RunLen(_, _)
RunLen(t, cs) == IF t # <<>> /\ t[1] \in cs THEN 1 + RunLen(Tail(t), cs) ELSE 0

Spaces == {c \in {9, 10, 11, 12, 13, 32, 160, 12288} : IsSpace(c)}

\* re.sub(r'\s+', ' ', t)
RECURSIVE CollapseSpaces(_)
CollapseSpaces(t) ==
    IF t = <<>> THEN <<>>
    ELSE IF IsSpace(t[1])
         THEN <<32>> \o CollapseSpaces(Drop(t, RunLen(t, Spaces)))
    ELSE <<t[1]>> \o CollapseSpaces(Tail(t))

\* str.strip(chars) and the anchored character-class substitutions
RECURSIVE LStripChars(_, _)
LStripChars(t, cs) == IF t # <<>> /\ t[1] \in cs THEN LStripChars(Tail(t), cs) ELSE t

RECURSIVE RStripChars(_, _)
RStripChars(t, cs) == IF t # <<>> /\ t[Len(t)] \in cs
                      THEN RStripChars(SubSeq(t, 1, Len(t) - 1), cs) ELSE t

StripChars(t, cs) == RStripChars(LStripChars(t, cs), cs)
\* lines 135-223, as (wrong, correct) pairs in the order of the dictionary
PHONETIC_CORRECTIONS == <<
    <<<<25176, 32943>>, <<116, 111, 107, 101, 110>>>>,
    <<<<36879, 32943>>, <<116, 111, 107, 101, 110>>>>,
    <<<<25176, 21345>>, <<116, 111, 107, 101, 110>>>>,
    <<<<22270, 32943>>, <<116, 111, 107, 101, 110>>>>,
    <<<<36879, 21345>>, <<116, 111, 107, 101, 110>>>>,
    <<<<25176, 20811>>, <<116, 111, 107, 101, 110>>>>,
    <<<<24681, 32, 98, 101, 100, 115>>, <<101, 109, 98, 101, 100, 100, 105, 110, 103, 115>>>>,
    <<<<24681, 32, 98, 101, 100, 100, 105, 110, 103>>, <<101, 109, 98, 101, 100, 100, 105, 110, 103, 115>>>>,
    <<<<33406, 32, 98, 101, 100, 115>>, <<101, 109, 98, 101, 100, 100, 105, 110, 103, 115>>>>,
    <<<<21862, 32, 98, 101, 100>>, <<76, 111, 82, 65>>>>,
    <<<<32599, 25289>>, <<76, 111, 82, 65>>>>,
    <<<<21171, 25289>>, <<76, 111, 82, 65>>>>,
    <<<<32599, 23068>>, <<76, 111, 82, 65>>>>,
    <<<<27966, 26862>>, <<80, 121, 116, 104, 111, 110>>>>,
    <<<<25293, 26862>>, <<80, 121, 116, 104, 111, 110>>>>,
    <<<<36276, 26862>>, <<80, 121, 116, 104, 111, 110>>>>,
    <<<<27888, 26222, 32, 115, 99, 114, 105, 112, 116>>, <<84, 121, 112, 101, 83, 99, 114, 105, 112, 116>>>>,
    <<<<27888, 26222, 26031, 20811, 29790, 26222, 29305>>, <<84, 121, 112, 101, 83, 99, 114, 105, 112, 116>>>>,
    <<<<20975, 29305>>, <<75, 111, 116, 108, 105, 110>>>>,
    <<<<32771, 29305, 26519>>, <<75, 111, 116, 108, 105, 110>>>>,
    <<<<29790, 33406, 31185, 29305>>, <<82, 101, 97, 99, 116>>>>,
    <<<<29790, 33406, 20811>>, <<82, 101, 97, 99, 116>>>>,
    <<<<32500, 33406, 23588>>, <<86, 117, 101>>>>,
    <<<<32500, 23588>>, <<86, 117, 101>>>>,
    <<<<23433, 21476, 21202>>, <<65, 110, 103, 117, 108, 97, 114>>>>,
    <<<<23433, 21733, 25289>>, <<65, 110, 103, 117, 108, 97, 114>>>>,
    <<<<33410, 26222, 26031>>, <<71, 105, 116, 72, 117, 98>>>>,
    <<<<21513, 21704, 24067>>, <<71, 105, 116, 72, 117, 98>>>>,
    <<<<21513, 21704, 20271>>, <<71, 105, 116, 72, 117, 98>>>>,
    <<<<21513, 29305>>, <<71, 105, 116>>>>,
    <<<<32473, 29305>>, <<71, 105, 116>>>>,
    <<<<40614, 26031, 24211, 23572>>, <<77, 121, 83, 81, 76>>>>,
    <<<<40614, 22622, 24211, 23572>>, <<77, 121, 83, 81, 76>>>>,
    <<<<36808, 26031, 24211, 23572>>, <<77, 121, 83, 81, 76>>>>,
    <<<<26222, 26031, 29305>>, <<80, 111, 115, 116, 103, 114, 101, 115>>>>,
    <<<<26222, 26031, 26684, 29790>>, <<80, 111, 115, 116, 103, 114, 101, 83, 81, 76>>>>,
    <<<<27874, 26031, 26684, 29790>>, <<80, 111, 115, 116, 103, 114, 101, 83, 81, 76>>>>,
    <<<<33945, 21246, 68, 66>>, <<77, 111, 110, 103, 111, 68, 66>>>>,
    <<<<33945, 21246>>, <<77, 111, 110, 103, 111, 68, 66>>>>,
    <<<<29790, 36842, 26031>>, <<82, 101, 100, 105, 115>>>>,
    <<<<29790, 22320, 26031>>, <<82, 101, 100, 105, 115>>>>,
    <<<<36798, 20811>>, <<68, 111, 99, 107, 101, 114>>>>,
    <<<<22810, 20811>>, <<68, 111, 99, 107, 101, 114>>>>,
    <<<<36947, 20811>>, <<68, 111, 99, 107, 101, 114>>>>,
    <<<<24211, 20271, 22856, 29305, 26031>>, <<75, 117, 98, 101, 114, 110, 101, 116, 101, 115>>>>,
    <<<<24211, 20271, 22856, 25552, 26031>>, <<75, 117, 98, 101, 114, 110, 101, 116, 101, 115>>>>,
    <<<<75, 20843, 115>>, <<75, 56, 115>>>>,
    <<<<75, 20843, 26031>>, <<75, 56, 115>>>>,
    <<<<22856, 20811, 26031>>, <<78, 103, 105, 110, 120>>>>,
    <<<<24681, 38745, 20811, 26031>>, <<78, 103, 105, 110, 120>>>>,
    <<<<32, 97, 116, 116, 101, 110, 116, 105, 111, 110, 115>>, <<97, 116, 116, 101, 110, 116, 105, 111, 110>>>>,
    <<<<29233, 33150, 31070>>, <<97, 116, 116, 101, 110, 116, 105, 111, 110>>>>,
    <<<<29233, 33150, 23457>>, <<97, 116, 116, 101, 110, 116, 105, 111, 110>>>>,
    <<<<25300, 29305>>, <<66, 69, 82, 84>>>>,
    <<<<21338, 29305>>, <<66, 69, 82, 84>>>>,
    <<<<20271, 29305>>, <<66, 69, 82, 84>>>>,
    <<<<21513, 30382, 26799>>, <<71, 80, 84>>>>,
    <<<<21513, 30382, 25552>>, <<71, 80, 84>>>>,
    <<<<21513, 30382, 36386>>, <<71, 80, 84>>>>,
    <<<<29233, 22885, 33406, 22982>>, <<76, 76, 77>>>>,
    <<<<33406, 22885, 33406, 22982>>, <<76, 76, 77>>>>,
    <<<<65, 80, 73>>, <<65, 80, 73>>>>,
    <<<<22467, 25209, 33406>>, <<65, 80, 73>>>>,
    <<<<38463, 25209, 33406>>, <<65, 80, 73>>>>,
    <<<<22467, 26222, 33406>>, <<65, 80, 73>>>>,
    <<<<23588, 33406>>, <<85, 73>>>>,
    <<<<23588, 20811, 26031>>, <<85, 88>>>>,
    <<<<35199, 33406>>, <<67, 73>>>>,
    <<<<35199, 36842>>, <<67, 68>>>>,
    <<<<35199, 33406, 35199, 36842>>, <<67, 73, 47, 67, 68>>>> >>

RECURSIVE ApplyCorrections(_, _)
ApplyCorrections(t, i) ==
    IF i > Len(PHONETIC_CORRECTIONS) \/ t = <<>> THEN t
    ELSE ApplyCorrections(ReplaceAll(t, PHONETIC_CORRECTIONS[i][1],
                                        PHONETIC_CORRECTIONS[i][2]), i + 1)

\* lines 225-242
apply_phonetic_corrections(text) ==
    IF text = <<>> THEN text ELSE ApplyCorrections(text, 1)

\* line 273
puncts == {65292, 12290, 65281, 65311, 12289, 65307, 65306, 34, 65288, 65289, 12304, 12305, 44, 46, 33, 63, 59, 58, 39, 40, 41, 91, 93}

\* line 276: sorted(set(FILLER_WORDS), key=len, reverse=True); words of the
\* same length are taken in the order of the list
words == <<
    <<98, 97, 115, 105, 99, 97, 108, 108, 121>>, <<108, 105, 116, 101, 114, 97, 108, 108, 121>>, <<121, 111, 117, 32, 107, 110, 111, 119>>,
    <<97, 99, 116, 117, 97, 108, 108, 121>>, <<115, 111, 32, 121, 101, 97, 104>>, <<121, 111, 117, 32, 115, 101, 101>>,
    <<20063, 23601, 26159, 35828>>, <<35805, 21477, 35805, 35828>>, <<36825, 20010, 37027, 20010>>,
    <<108, 105, 107, 101>>, <<20026, 20160, 20040>>, <<20854, 23454, 21602>>,
    <<21999, 21584>>, <<36825, 20010>>, <<37027, 20010>>,
    <<23601, 26159>>, <<20854, 23454>>, <<21487, 33021>>,
    <<22823, 27010>>, <<22909, 20687>>, <<25110, 35768>>,
    <<28982, 21518>>, <<37027, 20040>>, <<36825, 26679>>,
    <<37027, 26679>>, <<20160, 20040>>, <<24590, 20040>>,
    <<23545, 20102>>, <<22909, 21543>>, <<21999, 21999>>,
    <<21834, 21834>>, <<21734, 21734>>, <<21571, 21571>>,
    <<21703, 22622>>, <<25105, 21435>>, <<25105, 38752>>,
    <<25105, 25830>>, <<117, 109>>, <<117, 104>>,
    <<101, 114>>, <<21834>>, <<21999>>,
    <<21734>>, <<21568>>, <<21703>>,
    <<21704>>, <<22079>>, <<21571>>,
    <<21862>>, <<21543>>, <<21602>>,
    <<21527>> >>

IsBoundary(c) == IsSpace(c) \/ c \in puncts

FollowOk_Any(u) == TRUE

\* line 283, the part after the word: "$" or one white-space or punctuation
\* character; FollowOk says whether it matches at u, Follow what it takes
FollowOk(u) == u = <<>> \/ IsBoundary(u[1])
Follow(u) == IF u = <<>> THEN <<>> ELSE <<u[1]>>

\* line 284: re.sub(pattern, r'\1\2', text) for one word; atStart says that t
\* begins where the text begins ("^")
RECURSIVE SubFiller(_, _, _)
SubFiller(t, w, atStart) ==
    IF t = <<>> THEN <<>>
    ELSE IF atStart /\ StartsWith(t, w) /\ FollowOk(Drop(t, Len(w)))
         THEN LET u == Drop(t, Len(w))
              IN Follow(u) \o SubFiller(Drop(u, Len(Follow(u))), w, FALSE)
    ELSE IF IsBoundary(t[1]) /\ StartsWith(Tail(t), w)
               /\ FollowOk(Drop(t, 1 + Len(w)))
         THEN LET u == Drop(t, 1 + Len(w))
              IN <<t[1]>> \o Follow(u)
                     \o SubFiller(Drop(u, Len(Follow(u))), w, FALSE)
    ELSE <<t[1]>> \o SubFiller(Tail(t), w, FALSE)

\* lines 281-287: one pass over the words
RECURSIVE FillerPass(_, _)
FillerPass(t, i) ==
    IF i > Len(words) \/ t = <<>> THEN t
    ELSE FillerPass(SubFiller(t, words[i], TRUE), i + 1)

\* lines 279-290: at most three passes, stopping at the first without change
FillerLoop(t) ==
    LET t1 == FillerPass(t, 1)
        t2 == IF t1 = t THEN t1 ELSE FillerPass(t1, 1)
    IN IF t2 = t1 THEN t2 ELSE FillerPass(t2, 1)

\* lines 264-301
remove_filler_words(text) ==
    IF text = <<>> THEN text
    ELSE StripChars(CollapseSpaces(FillerLoop(text)), {32} \cup puncts)

\* lines 333-335
digit_map == (38646 :> 0) @@ (12295 :> 0) @@ (19968 :> 1) @@ (20108 :> 2)
             @@ (19977 :> 3) @@ (22235 :> 4) @@ (20116 :> 5) @@ (20845 :> 6)
             @@ (19971 :> 7) @@ (20843 :> 8) @@ (20061 :> 9)
unit_map == (21313 :> 10) @@ (30334 :> 100) @@ (21315 :> 1000)
            @@ (19975 :> 10000) @@ (20159 :> 100000000)

CnOne == 19968             \* '一'
CnTen == 21313             \* '十'
CnOrdinal == 31532         \* '第'

\* line 376: the characters of a numeral run
CnChars == DOMAIN digit_map \cup DOMAIN unit_map

\* Python's integers are unbounded. A natural number is the sequence of its
\* decimal digits, least significant first; zero is the empty sequence.
Digit(d) == IF d = 0 THEN <<>> ELSE <<d>>

\* a + b + carry
RECURSIVE Plus(_, _, _)
Plus(a, b, carry) ==
    IF a = <<>> /\ b = <<>> THEN Digit(carry)
    ELSE LET x == IF a = <<>> THEN 0 ELSE a[1]
             y == IF b = <<>> THEN 0 ELSE b[1]
             s == x + y + carry
         IN <<s % 10>> \o Plus(IF a = <<>> THEN a ELSE Tail(a),
                               IF b = <<>> THEN b ELSE Tail(b), s \div 10)

\* a * unit, the units being powers of ten
Times(a, unit) ==
    LET zeros == CHOOSE k \in 0..8 : 10^k = unit
    IN IF a = <<>> THEN a ELSE [i \in 1..zeros |-> 0] \o a

\* lines 345-367: the loop over the characters of the numeral
RECURSIVE CnLoop(_, _, _, _)
CnLoop(cn, total, temp, last_unit) ==
    IF cn = <<>> THEN Plus(total, Digit(temp), 0)
    ELSE IF cn[1] \in DOMAIN digit_map
         THEN CnLoop(Tail(cn), total, digit_map[cn[1]], last_unit)
    ELSE LET unit == unit_map[cn[1]]
         IN IF unit > last_unit
            THEN CnLoop(Tail(cn), Times(Plus(total, Digit(temp), 0), unit), 0, unit)
            ELSE CnLoop(Tail(cn), Plus(total, Times(Digit(temp), unit), 0), 0, unit)

LeadingTen_Kept(cn) == cn

\* lines 342-343: a leading '十' stands for '一十'
LeadingTen(cn) == IF cn[1] = CnTen THEN <<CnOne>> \o cn ELSE cn

\* line 331, line 372: the value None
None == <<-1>>

\* lines 328-372: the value of the numeral, or None
parse_cn(cn) ==
    IF cn = <<>> THEN None
    ELSE IF Len(cn) = 1 /\ cn[1] \in DOMAIN digit_map THEN Digit(digit_map[cn[1]])
    ELSE LET total == CnLoop(LeadingTen(cn), <<>>, 0, 1)
         IN IF total # <<>> THEN total ELSE None

\* str(n) for n >= 0: the digits, most significant first
Str(n) == IF n = <<>> THEN <<48>> ELSE [i \in 1..Len(n) |-> 48 + n[Len(n) + 1 - i]]

\* lines 311-326: what a matched run is replaced by
parse_number(m) ==
    LET is_ordinal == m[1] = CnOrdinal
        cn == IF is_ordinal THEN Tail(m) ELSE m
        result == parse_cn(cn)
    IN IF result # None
       THEN (IF is_ordinal THEN <<CnOrdinal>> ELSE <<>>) \o Str(result)
       ELSE m

\* lines 376-377: re.sub over the runs that match the pattern, the optional
\* ordinal marker followed by one or more numeral characters
RECURSIVE SubNumbers(_)
SubNumbers(t) ==
    IF t = <<>> THEN <<>>
    ELSE LET marked == t[1] = CnOrdinal /\ Len(t) >= 2 /\ t[2] \in CnChars
             start == IF marked THEN 1 ELSE 0
             k == start + RunLen(Drop(t, start), CnChars)
         IN IF marked \/ t[1] \in CnChars
            THEN parse_number(Take(t, k)) \o SubNumbers(Drop(t, k))
            ELSE <<t[1]>> \o SubNumbers(Tail(t))

\* lines 304-382
convert_chinese_numbers(text) == IF text = <<>> THEN text ELSE SubNumbers(text)

\* lines 438-439 and 442-448: the literal substitutions, in order
corrections == <<
    <<<<49, 20123>>, <<19968, 20123>>>>,
    <<<<49, 19979>>, <<19968, 19979>>>>,
    <<<<37027, 20010, 37027, 20010>>, <<37027, 20010>>>>,
    <<<<36825, 20010, 36825, 20010>>, <<36825, 20010>>>>,
    <<<<28982, 21518, 28982, 21518>>, <<28982, 21518>>>>,
    <<<<23601, 26159, 23601, 26159>>, <<23601, 26159>>>>,
    <<<<22909, 21543, 22909, 21543>>, <<22909, 21543>>>> >>

\* line 454: the measure words, in the order of the alternation
measure_words == <<
    <<20010>>, <<21482>>, <<26465>>, <<24352>>,
    <<26412>>, <<39029>>, <<34892>>, <<21015>>,
    <<31859>>, <<21400, 31859>>, <<20844, 37324>>, <<21315, 20811>>,
    <<20811>> >>

RECURSIVE ApplyLiterals(_, _, _)
ApplyLiterals(t, subs, i) ==
    IF i > Len(subs) \/ t = <<>> THEN t
    ELSE ApplyLiterals(ReplaceAll(t, subs[i][1], subs[i][2]), subs, i + 1)

\* "\d" on the texts used here
IsDigit(c) == c \in 48..57

FirstMeasure(u) ==
    IF \E i \in 1..Len(measure_words) : StartsWith(u, measure_words[i])
    THEN measure_words[CHOOSE i \in 1..Len(measure_words) :
             /\ StartsWith(u, measure_words[i])
             /\ \A j \in 1..(i - 1) : ~StartsWith(u, measure_words[j])]
    ELSE <<>>

\* line 454: white space between a digit and a measure word is removed
RECURSIVE SubDigitUnit(_)
SubDigitUnit(t) ==
    IF t = <<>> THEN <<>>
    ELSE LET k == RunLen(Tail(t), Spaces)
             u == Drop(t, 1 + k)
             w == FirstMeasure(u)
         IN IF IsDigit(t[1]) /\ k >= 1 /\ w # <<>>
            THEN <<t[1]>> \o w \o SubDigitUnit(Drop(u, Len(w)))
            ELSE <<t[1]>> \o SubDigitUnit(Tail(t))

\* lines 428-459
polish_sentence(text) ==
    IF text = <<>> THEN text
    ELSE SubDigitUnit(ApplyLiterals(text, corrections, 1))

\* line 394-395: the four literal replacements
unify == <<
    <<<<65292, 44>>, <<65292>>>>,
    <<<<44, 65292>>, <<65292>>>>,
    <<<<12290, 46>>, <<12290>>>>,
    <<<<46, 12290>>, <<12290>>>> >>

\* the substitutions of lines 398-410, in order: first mark, the mark that
\* follows the optional white space, whether that one may repeat ("+"), and
\* the replacement
collapse == <<
    [a |-> 65292, b |-> 65292, plus |-> TRUE, r |-> 65292],
    [a |-> 44, b |-> 44, plus |-> TRUE, r |-> 44],
    [a |-> 65292, b |-> 44, plus |-> FALSE, r |-> 65292],
    [a |-> 44, b |-> 65292, plus |-> FALSE, r |-> 65292],
    [a |-> 12290, b |-> 12290, plus |-> TRUE, r |-> 12290],
    [a |-> 46, b |-> 46, plus |-> TRUE, r |-> 46],
    [a |-> 65311, b |-> 65311, plus |-> TRUE, r |-> 65311],
    [a |-> 33, b |-> 33, plus |-> TRUE, r |-> 33],
    [a |-> 65281, b |-> 65281, plus |-> TRUE, r |-> 65281] >>

\* re.sub of "a\s*b+" (or "a\s*b") by r
RECURSIVE SubCollapse(_, _)
SubCollapse(t, p) ==
    IF t = <<>> THEN <<>>
    ELSE LET u == Drop(t, 1 + RunLen(Tail(t), Spaces))
             n == IF p.plus THEN RunLen(u, {p.b})
                  ELSE IF u # <<>> /\ u[1] = p.b THEN 1 ELSE 0
         IN IF t[1] = p.a /\ n >= 1
            THEN <<p.r>> \o SubCollapse(Drop(u, n), p)
            ELSE <<t[1]>> \o SubCollapse(Tail(t), p)

RECURSIVE ApplyCollapse(_, _)
ApplyCollapse(t, i) ==
    IF i > Len(collapse) \/ t = <<>> THEN t
    ELSE ApplyCollapse(SubCollapse(t, collapse[i]), i + 1)

\* line 413 and line 416: the marks removed at the start and at the end
LeadMarks == {65292, 12290, 65281, 65311, 12289, 65307, 65306, 44, 46, 33, 63, 59, 58} \cup Spaces
TailMarks_Spaces == Spaces
TailMarks == {65292, 44} \cup Spaces

\* lines 385-425
clean_punctuation(text) ==
    IF text = <<>> THEN text
    ELSE LET t1 == ApplyCollapse(ApplyLiterals(text, unify, 1), 1)
             t2 == RStripChars(LStripChars(t1, LeadMarks), TailMarks)
         IN Strip(CollapseSpaces(t2))

\* ------------------------------------------------------------ numerals
\* The numerals convert_chinese_numbers is given in SpecNum: the usual way of
\* writing n, thousands to ones, each non-zero digit followed by its unit,
\* one zero character for a gap of zeros between two non-zero digits.
CnDigits == <<19968, 20108, 19977, 22235, 20116, 20845, 19971, 20843, 20061>>
CnHundred == 30334      \* the unit 100
CnThousand == 21315     \* the unit 1000
CnMyriad == 19975       \* the unit 10000
CnZeros == {38646, 12295}

\* a number below 10000. zero: the zero character used; lead: whether 10..19
\* are written with the leading one
CnSection(n, zero, lead) ==
    LET th == n \div 1000
        h == (n \div 100) % 10
        t == (n \div 10) % 10
        o == n % 10
    IN (IF th > 0 THEN <<CnDigits[th], CnThousand>> ELSE <<>>)
       \o (IF h > 0 THEN <<CnDigits[h], CnHundred>>
           ELSE IF th > 0 /\ (t > 0 \/ o > 0) THEN <<zero>> ELSE <<>>)
       \o (IF t > 0
           THEN (IF t = 1 /\ th = 0 /\ h = 0 /\ ~lead THEN <<CnTen>>
                 ELSE <<CnDigits[t], CnTen>>)
           ELSE IF h > 0 /\ o > 0 THEN <<zero>> ELSE <<>>)
       \o (IF o > 0 THEN <<CnDigits[o]>> ELSE <<>>)

\* from 10000 on: the myriads, their unit, and the rest
CnOf(n, zero, lead) ==
    IF n < 10000 THEN CnSection(n, zero, lead)
    ELSE CnSection(n \div 10000, zero, lead) \o <<CnMyriad>>
         \o (IF n % 10000 = 0 THEN <<>>
             ELSE (IF n % 10000 < 1000 THEN <<zero>> ELSE <<>>)
                  \o CnSection(n % 10000, zero, TRUE))

CnYi == 20159           \* the unit 100000000

\* from 100000000 on: the section before the unit, the unit, and the rest,
\* with a zero character where the rest does not fill its highest place
CnLarge(n, zero, lead) ==
    IF n < 10^8 THEN CnOf(n, zero, lead)
    ELSE CnSection(n \div 10^8, zero, lead) \o <<CnYi>>
         \o (IF n % 10^8 = 0 THEN <<>>
             ELSE (IF n % 10^8 < 10^7 THEN <<zero>> ELSE <<>>)
                  \o CnOf(n % 10^8, zero, TRUE))

\* the texts around the numeral: none, or a letter on each side
Around == {<<>>, <<97>>}

NoNumber == [n |-> 0, ordinal |-> FALSE, around |-> <<>>, text |-> <<>>]
NotConverted == [done |-> FALSE, text |-> <<>>]
NoStage == [stage |-> "none", text |-> <<>>]

Numbers ==
    {[n |-> n, ordinal |-> ord, around |-> a,
      text |-> a \o (IF ord THEN <<CnOrdinal>> ELSE <<>>) \o CnOf(n, z, l) \o a] :
        n \in 1..MaxNumber, ord \in BOOLEAN, a \in Around,
        z \in CnZeros, l \in BOOLEAN}

\* the sections (groups of four places) the large numerals are built from
Sections == {0, 1, 10, 12, 20, 105, 110, 300, 1000, 1001, 2000, 2020, 3456, 9999}

\* the numerals of SpecLarge: those that use the unit 10000 or 100000000
LargeNumbers ==
    {[n |-> n, ordinal |-> ord, around |-> a,
      text |-> a \o (IF ord THEN <<CnOrdinal>> ELSE <<>>) \o CnLarge(n, z, l) \o a] :
        n \in {yi * 10^8 + wan * 10^4 + rest :
                  yi \in 0..MaxYi, wan \in Sections, rest \in Sections} \ 0..9999,
        ord \in BOOLEAN, a \in Around, z \in CnZeros, l \in BOOLEAN}

\* the characters of the runs of SpecRuns: zero, one, two, four, and the
\* units 10, 100 and 10000
RunChars == {38646, CnOne, 20108, 22235, CnTen, CnHundred, CnMyriad}

\* the runs of SpecRuns: every sequence of one to MaxRun of these characters,
\* with or without the ordinal marker, alone or between other characters
Runs ==
    {[n |-> 0, ordinal |-> ord, around |-> a,
      text |-> a \o (IF ord THEN <<CnOrdinal>> ELSE <<>>) \o run \o a] :
        run \in UNION {[1..k -> RunChars] : k \in 1..MaxRun},
        ord \in BOOLEAN, a \in Around}

\* ------------------------------------------------------------ configuration
\* lines 18-26. models: the key-to-model mapping; bad_key: the mapping holds a
\* key that is not a string
DefaultConfig == [model |-> "0.6B", language |-> "zh", models |-> Models,
                  bad_key |-> FALSE]

\* config.yaml. kind: missing (or yaml not importable), unparsable, empty,
\* scalar (not a mapping), other (a mapping without asr and model), asr_bad
\* and legacy_bad (the section is not a mapping), asr, legacy (a "model"
\* section and no asr). The fields are the entries of the section: "absent",
\* "null" (YAML null) or the value; models: "absent", "bad" (not a mapping),
\* "add" (one more key, "2B") or "intkey" (a key that is an integer)
NoConfigFile == [kind |-> "missing", model |-> "absent", language |-> "absent",
                 models |-> "absent"]
FileModels == {"absent", "null", "0.6B", "1.7B", "2B"}
FileLanguages == {"absent", "null", "zh", "en", "fr"}
FileMappings == {"absent", "bad", "add", "intkey"}
ConfigFiles ==
    {[NoConfigFile EXCEPT !.kind = k] :
        k \in {"missing", "unparsable", "empty", "scalar", "other",
               "asr_bad", "legacy_bad"}}
    \cup {[kind |-> "asr", model |-> m, language |-> l, models |-> ms] :
            m \in FileModels, l \in FileLanguages, ms \in FileMappings}
    \cup {[NoConfigFile EXCEPT !.kind = "legacy", !.language = l] :
            l \in FileLanguages}

\* dict.get(key, default) on an entry of the file
GetOr(v, default) == IF v = "absent" THEN default
                     ELSE IF v = "null" THEN NoKey ELSE v

\* lines 76-96
load_config(c, f) ==
    IF f.kind = "asr"
    THEN [model |-> GetOr(f.model, "0.6B"),                       \* line 88
          language |-> GetOr(f.language, "zh"),                   \* line 89
          models |-> IF f.models = "add"                          \* lines 90-91
                     THEN c.models @@ ("2B" :> "user/2B")
                     ELSE c.models,
          bad_key |-> (c.bad_key \/ f.models = "intkey")]
    ELSE IF f.kind = "legacy"
    THEN [c EXCEPT !.language = GetOr(f.language, "zh")]          \* line 94
    ELSE c                                                        \* lines 95-96

\* line 471
lang_map == ("zh" :> "Chinese") @@ ("en" :> "English") @@ ("auto" :> "Chinese")
mlx_lang(c) == IF c.language \in DOMAIN lang_map THEN lang_map[c.language]
               ELSE "Chinese"

\* lines 643-645: the start-up messages index the mapping with the
\* configured key (KeyError when it is not there) and join the keys of the
\* mapping (TypeError when one is not a string)
BannerOk(c) == c.model \in DOMAIN c.models /\ ~c.bad_key

\* the exception leaves start_server, after bind and listen and before the
\* accept loop
OnBannerError == "crashed"

NoConn == [payload |-> <<>>, complete |-> FALSE, rest |-> <<>>, length_bytes |-> <<>>,
           data_length |-> 0, audio_data |-> <<>>, out |-> <<>>,
           handed |-> <<>>, calls |-> 0, faults |-> {}, peer_gone |-> FALSE, send_error |-> FALSE,
           temp_path |-> "none", output_path |-> "none",
           result |-> NoResult, err |-> <<>>, loads |-> 0, engines |-> 0,
           raw |-> <<>>]

\* ------------------------------------------------------------ socket path
\* processes that may run start_server on the same CONFIG["socket_path"]
MaxServers == 2
Servers == 1..MaxServers

\* no file at socket_path
NoSocketFile == 0

\* a process: where it is in start_server, whether its listening socket is
\* bound, and the connections it accepted. A process that is not running
\* was never started or has left start_server through the finally block
\* ("down"), was ended by an exception ("crashed") or was killed ("killed")
MaxAccepts == 1
ServerDown == [pc |-> "down", bound |-> FALSE, accepted |-> 0]
Ended(how) == [ServerDown EXCEPT !.pc = how]

SockIdle ==
    /\ socket_file = NoSocketFile
    /\ server = [p \in Servers |-> ServerDown]

sockVars == <<socket_file, server>>

\* ------------------------------------------------------------ front ends
\* the hotkey-driven recording clients
Clients == {"voice_input", "voice_menu", "voice_with_overlay"}

\* hotkey presses, and so handler invocations and record_audio threads
MaxPresses == 3
Presses == 1..MaxPresses

\* frames one record_audio thread captures
MaxFrames == 1

\* recording_thread = None
NoThread == 0

\* a handler that has not been invoked; target is the thread it joins
HandlerIdle == [pc |-> "idle", target |-> NoThread]

\* a record_audio thread that has not been created
RecIdle == [pc |-> "none", captured |-> 0]

ClientIdle ==
    /\ client = "none"
    /\ is_recording = FALSE
    /\ recording_thread = NoThread
    /\ audio_frames = <<>>
    /\ handler = [h \in Presses |-> HandlerIdle]
    /\ rec = [r \in Presses |-> RecIdle]
    /\ saved = <<>>

cliVars == <<client, is_recording, recording_thread, audio_frames, handler,
             rec, saved>>
restVars == <<sockVars, cliVars>>
RestIdle == SockIdle /\ ClientIdle

Init ==
    /\ pc = [t \in Threads |-> IF t = "main" THEN "bind" ELSE "w_idle"]
    /\ conn = NoConn
    /\ current_model = NoModel
    /\ current_model_key = NoKey
    /\ model_key = [t \in Threads |-> NoKey]
    /\ ret = [t \in Threads |-> NoModel]
    /\ model = [t \in Threads |-> NoModel]
    /\ loader_failed = FALSE
    /\ nconn = 0
    /\ prev_faulty = FALSE
    /\ call_loads = [t \in Threads |-> 0]
    /\ log = NoEntry
    /\ files = [p \in HotPaths |-> NoFile]
    /\ hotwords = NoHotwords
    /\ hotwords_mtime = 0
    /\ transcription_kwargs = NoKwargs
    /\ hw_log = NoHwLog
    /\ variant = NoVariant
    /\ CONFIG = DefaultConfig
    /\ config_file = NoConfigFile
    /\ open_conns = 0
    /\ number = NoNumber
    /\ converted = NotConverted
    /\ stage_in = NoStage
    /\ stage_out = <<>>
    /\ RestIdle

cacheVars == <<current_model, current_model_key, model_key, ret, model,
               loader_failed, call_loads, log>>
histVars == <<nconn, prev_faulty>>
hotVars == <<files, hotwords, hotwords_mtime, transcription_kwargs, hw_log>>
cfgVars == <<CONFIG, config_file>>
numVars == <<number, converted>>
stageVars == <<stage_in, stage_out>>
progVars == <<hotVars, variant, cfgVars, numVars, stageVars, restVars>>
sideVars == <<progVars, open_conns>>


\* ------------------------------------------------------------ exceptions
\* handle_client, line 576: "except Exception" takes every error of the try
\* block to the error reply; nothing escapes to the accept loop
OnHandlerException_Escapes == "crashed"
OnHandlerException == "err_send_len"

\* the locals of the try block and the unread input are dead from here on;
\* the payload the client encoded and the audio handed over are observed at
\* the hand-over (pc = "transcribe") and not kept beyond it
Forget(c) == [c EXCEPT !.rest = <<>>, !.length_bytes = <<>>, !.data_length = 0,
                       !.audio_data = <<>>, !.payload = <<>>, !.handed = <<>>]

AfterTranscribeFailure_Retry == "transcribe"

\* lines 527-531 and 563-574: the failure is the result of the call, the
\* handler goes on to send it
AfterTranscribeFailure == "send_len"

TranscribeExcept_Propagates(c, msg, fault) ==
    [conn |-> [c EXCEPT !.err = msg, !.faults = @ \cup {fault}],
     pc |-> OnHandlerException]

\* transcribe_audio, lines 527-531: "except Exception" turns every error of
\* the try block into the result {"success": False, "error": str(e)}
TranscribeExcept(c, msg, fault) ==
    [conn |-> [c EXCEPT !.result = Failure(msg), !.faults = @ \cup {fault}],
     pc |-> AfterTranscribeFailure]

Raise(c, msg, fault) ==
    /\ conn' = [Forget(c) EXCEPT !.err = msg, !.faults = @ \cup {fault}]
    /\ pc' = [pc EXCEPT !["main"] = OnHandlerException]

\* ------------------------------------------------------------ start
\* __main__, line 663
LoadConfig ==
    /\ pc["main"] = "config"
    /\ CONFIG' = load_config(CONFIG, config_file)
    /\ pc' = [pc EXCEPT !["main"] = "bind"]
    /\ UNCHANGED <<conn, cacheVars, histVars, hotVars, variant, config_file,
                   open_conns, numVars, stageVars, restVars>>

\* ------------------------------------------------------------ listener
\* start_server, VoiceOverlay variant: bind, listen, spawn the warmup thread
StartServer ==
    /\ pc["main"] = "bind"
    /\ \E ok \in BOOLEAN :
         pc' = IF ~ok THEN [pc EXCEPT !["main"] = "exited"]
               ELSE IF ~BannerOk(CONFIG)
                    THEN [pc EXCEPT !["main"] = OnBannerError]
               ELSE [main |-> "accept", warmup |-> "w_start"]
    /\ variant' = "VoiceOverlay"
    /\ UNCHANGED <<conn, cacheVars, histVars, hotVars, cfgVars, open_conns,
                   numVars, stageVars, restVars>>

\* start_server, oleVoice.app variant: bind, listen, no warmup thread
StartServerNoWarmup ==
    /\ pc["main"] = "bind"
    /\ \E ok \in BOOLEAN :
         pc' = [pc EXCEPT !["main"] = IF ~ok THEN "exited"
                                      ELSE IF ~BannerOk(CONFIG) THEN OnBannerError
                                      ELSE "accept"]
    /\ variant' = "oleVoice.app"
    /\ UNCHANGED <<conn, cacheVars, histVars, hotVars, cfgVars, open_conns,
                   numVars, stageVars, restVars>>

AcceptReady_AfterWarmup ==
    pc["main"] = "accept" /\ pc["warmup"] \in {"w_done", "w_failed"}

\* line 653: server.accept() does not look at the warmup thread
AcceptReady == pc["main"] = "accept"

\* server.accept(): a client connects; it will write the first `cut` bytes
\* of the frame of `payload` and then close its sending side
Accept ==
    /\ AcceptReady
    /\ nconn < MaxConns
    /\ \E payload \in Payloads : \E cut \in 0..(HeaderLen + Len(payload)) :
         conn' = [NoConn EXCEPT !.payload = payload,
                                !.complete = (cut = HeaderLen + Len(payload)),
                                !.rest = Take(Encode(payload), cut)]
    /\ nconn' = nconn + 1
    /\ open_conns' = open_conns + 1
    /\ pc' = [pc EXCEPT !["main"] = "recv_len"]
    /\ UNCHANGED <<cacheVars, prev_faulty, progVars>>

AfterRecv(audio, n) == IF Len(audio) < n THEN "recv_body" ELSE "wav"

\* lines 537-541: one recv(4), then struct.unpack
RecvLen ==
    /\ pc["main"] = "recv_len"
    /\ \/ Raise(conn, MsgRecv, "recv")
       \/ /\ conn.rest = <<>>                      \* b'': return
          /\ conn' = conn
          /\ pc' = [pc EXCEPT !["main"] = "close"]
       \/ \E k \in 1..Min(HeaderLen, Len(conn.rest)) :
            LET lb == Take(conn.rest, k)
                c1 == [conn EXCEPT !.length_bytes = lb, !.rest = Drop(@, k)]
            IN IF UnpackOk(lb)
               THEN /\ conn' = [c1 EXCEPT !.data_length = Unpack(lb)]
                    /\ pc' = [pc EXCEPT !["main"] = AfterRecv(<<>>, Unpack(lb))]
               ELSE Raise(c1, MsgStruct, "struct")
    /\ UNCHANGED <<cacheVars, histVars, sideVars>>

\* lines 545-549: one iteration of the payload loop
RecvBody ==
    /\ pc["main"] = "recv_body"
    /\ \/ Raise(conn, MsgRecv, "recv")
       \/ /\ conn.rest = <<>>                      \* empty chunk: break
          /\ conn' = conn
          /\ pc' = [pc EXCEPT !["main"] = "wav"]
       \/ \E k \in 1..Min(Min(RecvMax, conn.data_length - Len(conn.audio_data)),
                          Len(conn.rest)) :
            LET audio == conn.audio_data \o Take(conn.rest, k)
            IN /\ conn' = [conn EXCEPT !.audio_data = audio, !.rest = Drop(@, k)]
               /\ pc' = [pc EXCEPT !["main"] = AfterRecv(audio, conn.data_length)]
    /\ UNCHANGED <<cacheVars, histVars, sideVars>>

\* a temporary file of a request: not created, on disk, or unlinked
TempStates == {"none", "exists", "deleted"}

\* lines 551-552: NamedTemporaryFile(delete=False) leaves the file on disk
Created(c, field) == [c EXCEPT ![field] = "exists"]

\* lines 565-568 and 501-505: os.unlink of the file the local names
Unlinked(c, field) ==
    [c EXCEPT ![field] = IF @ = "exists" THEN "deleted" ELSE @]

\* lines 551-560: the received bytes become the frames of a temporary WAV;
\* creating the file may fail, and so may writing the container into it
WriteWav ==
    /\ pc["main"] = "wav"
    /\ \/ Raise(conn, MsgWav, "wav")
       \/ Raise(Created(conn, "temp_path"), MsgWav, "wav")
       \/ /\ conn' = [Created(conn, "temp_path") EXCEPT
                                  !.handed = Append(@, conn.audio_data),
                                  !.rest = <<>>, !.length_bytes = <<>>,
                                  !.data_length = 0, !.audio_data = <<>>]
          /\ pc' = [pc EXCEPT !["main"] = "transcribe"]
    /\ UNCHANGED <<cacheVars, histVars, sideVars>>

\* lines 563, 463-468: transcribe_audio is entered and reads CONFIG['model']
Transcribe ==
    /\ pc["main"] = "transcribe"
    /\ \E k \in ModelKeys : model_key' = [model_key EXCEPT !["main"] = k]
    /\ conn' = [Forget(conn) EXCEPT !.calls = @ + 1]
    /\ pc' = [pc EXCEPT !["main"] = "lm_check"]
    /\ UNCHANGED <<current_model, current_model_key, ret, model,
                   loader_failed, call_loads, log, histVars, sideVars>>


\* ------------------------------------------------------------ load_model
\* where load_model returns to: transcribe_audio line 468, warmup_model 592
ReturnTo(t) == IF t = "main" THEN "engine" ELSE "w_engine"

AfterLoaderFailure_Clears(m, key) == <<NoModel, NoKey>>

\* line 128 raising: the assignment never happens, both globals keep
\* their values
AfterLoaderFailure(m, key) == <<m, key>>

\* lines 121-122: the cache test, and the return of the resident handle
LmCheck(t) ==
    /\ pc[t] = "lm_check"
    /\ IF CacheHit(current_model, current_model_key, model_key[t])
       THEN /\ model' = [model EXCEPT ![t] = current_model]
            /\ log' = [key |-> model_key[t], ret |-> current_model]
            /\ pc' = [pc EXCEPT ![t] = ReturnTo(t)]
       ELSE /\ pc' = [pc EXCEPT ![t] = "lm_load"]
            /\ UNCHANGED <<model, log>>
    /\ UNCHANGED <<conn, current_model, current_model_key, model_key, ret,
                   loader_failed, call_loads, histVars, sideVars>>

\* lines 124-128, right-hand side: the external loader is invoked with
\* get_model_path(model_key); it returns a new handle or raises
LmLoad(t) ==
    /\ pc[t] = "lm_load"
    /\ \/ /\ ret' = [ret EXCEPT ![t] = NewHandle(model_key[t])]
          /\ call_loads' = [call_loads EXCEPT ![t] = @ + 1]
          /\ conn' = IF t = "main" THEN [conn EXCEPT !.loads = @ + 1] ELSE conn
          /\ pc' = [pc EXCEPT ![t] = "lm_store_model"]
          /\ UNCHANGED <<current_model, current_model_key, log,
                         loader_failed, model_key>>
       \/ LET post == AfterLoaderFailure(current_model, current_model_key)
          IN /\ current_model' = post[1]
             /\ current_model_key' = post[2]
             /\ loader_failed' = TRUE
             /\ log' = log
             /\ IF t = "main"
                THEN LET x == TranscribeExcept([conn EXCEPT !.loads = @ + 1],
                                               MsgLoad, "load")
                     IN /\ conn' = x.conn
                        /\ pc' = [pc EXCEPT ![t] = x.pc]
                ELSE \* warmup_model lines 627-628
                     /\ conn' = conn
                     /\ pc' = [pc EXCEPT ![t] = "w_failed"]
             \* the caller is left by the exception: its locals are gone
             /\ model_key' = [model_key EXCEPT ![t] = NoKey]
             /\ call_loads' = [call_loads EXCEPT ![t] = 0]
             /\ UNCHANGED ret
    /\ UNCHANGED <<model, histVars, sideVars>>

\* line 128, left-hand side: _current_model = <loader result>
LmStoreModel(t) ==
    /\ pc[t] = "lm_store_model"
    /\ current_model' = ret[t]
    /\ ret' = [ret EXCEPT ![t] = NoModel]
    /\ pc' = [pc EXCEPT ![t] = "lm_store_key"]
    /\ UNCHANGED <<conn, current_model_key, model_key, model,
                   loader_failed, call_loads, log, histVars, sideVars>>

\* line 129: _current_model_key = model_key
LmStoreKey(t) ==
    /\ pc[t] = "lm_store_key"
    /\ current_model_key' = model_key[t]
    /\ pc' = [pc EXCEPT ![t] = "lm_return"]
    /\ UNCHANGED <<conn, current_model, model_key, ret, model,
                   loader_failed, call_loads, log, histVars, sideVars>>

\* line 132: return _current_model (the global is read again)
LmReturn(t) ==
    /\ pc[t] = "lm_return"
    /\ model' = [model EXCEPT ![t] = current_model]
    /\ log' = [key |-> model_key[t], ret |-> current_model]
    /\ pc' = [pc EXCEPT ![t] = ReturnTo(t)]
    /\ UNCHANGED <<conn, current_model, current_model_key, model_key, ret,
                   loader_failed, call_loads, histVars, sideVars>>

\* ------------------------------------------------------------ transcribe
\* lines 507-525 (VoiceOverlay) and 290-295 (oleVoice.app): from the text of
\* the engine's result to the text of the response
Postprocess(v, raw) ==
    IF v = "oleVoice.app"
    THEN apply_phonetic_corrections(Strip(raw))
    ELSE clean_punctuation(polish_sentence(convert_chinese_numbers(
             remove_filler_words(apply_phonetic_corrections(Strip(raw))))))

\* the texts the engine recognises in SpecText: a filler word (U+55EF), a
\* full-width comma, the numeral one (U+4E00), the character that forms a
\* word with it (U+4E9B), the two characters of a misrecognised term
\* (U+6258 U+80AF) and a space
TextChars == {21999, 65292, 19968, 20123, 25176, 32943, 32}
RawTexts == UNION {[1..n -> TextChars] : n \in 0..MaxText}

\* Postprocess, tabulated over the texts the engine may recognise
PostTexts == [v \in Variants |-> [raw \in Texts |-> Postprocess(v, raw)]]
PostRawTexts == [v \in Variants |-> [raw \in RawTexts |-> Postprocess(v, raw)]]

\* lines 470-531: the engine call; its text goes through the normalisation
\* stages and becomes the result, an exception becomes a failure result.
\* post: the texts the engine may recognise, with what they become
EngineOn(post) ==
    /\ pc["main"] = "engine"
    /\ \E io \in HotIO :
         LET h == load_hotwords(files, hotwords, hotwords_mtime, io) \* 474
             c1 == [conn EXCEPT !.engines = @ + 1]
             \* line 484: the output file exists while the engine runs
             failed == TranscribeExcept(Created(c1, "output_path"),
                                        MsgEngine, "engine")
             escaped == TranscribeExcept(conn, MsgHot, "hotwords")
         IN /\ hotwords' = h.hotwords
            /\ hotwords_mtime' = h.mtime
            /\ hw_log' = [path |-> h.path,
                          mtime |-> IF h.path = 0 THEN 0 ELSE files[h.path].mtime,
                          stat |-> h.stat, opened |-> h.opened,
                          read |-> h.read, ret |-> h.ret,
                          \* the candidate the cached list was read from
                          source |-> IF h.read THEN h.path ELSE hw_log.source]
            /\ IF h.raised
               THEN /\ transcription_kwargs' = transcription_kwargs
                    /\ conn' = escaped.conn
                    /\ pc' = [pc EXCEPT !["main"] = escaped.pc]
               ELSE \* lines 487-499: generate_transcription(**kwargs)
                    /\ transcription_kwargs' = Kwargs(h.ret)
                    /\ \/ /\ \E raw \in DOMAIN post[variant] :
                                \* lines 484, 501-505: created, unlinked
                                conn' = [Unlinked(Created(c1, "output_path"),
                                                  "output_path") EXCEPT
                                           !.raw = raw,
                                           !.result = Success(post[variant][raw])]
                          /\ pc' = [pc EXCEPT !["main"] = "send_len"]
                       \/ /\ conn' = failed.conn
                          /\ pc' = [pc EXCEPT !["main"] = failed.pc]
    \* transcribe_audio returns: its locals are gone
    /\ model' = [model EXCEPT !["main"] = NoModel]
    /\ model_key' = [model_key EXCEPT !["main"] = NoKey]
    /\ call_loads' = [call_loads EXCEPT !["main"] = 0]
    /\ UNCHANGED <<current_model, current_model_key, ret,
                   loader_failed, log, histVars, files, variant, cfgVars,
                   open_conns, numVars, stageVars, restVars>>

Engine == EngineOn(PostTexts)

\* ------------------------------------------------------------ reply
\* conn.send(data): fails from the moment the peer is gone
Send(c, data, gone) == IF gone THEN c ELSE [c EXCEPT !.out = @ \o data]

\* what a conn.send call can do: write its data; raise because the peer has
\* closed (every later send raises too); raise for another reason (no buffer
\* space, no memory), which says nothing about the next send
SendOutcomes == {"sent", "gone", "error"}

\* the connection after a send with this outcome, before anything is written
AfterSend(c, outcome) ==
    [c EXCEPT !.peer_gone = @ \/ outcome = "gone",
              !.send_error = @ \/ outcome = "error"]

SendRaises(c, outcome) == c.peer_gone \/ outcome # "sent"

\* the outcomes in Spec, SpecSeq and SpecFair, where a send fails only
\* because the peer is gone; SpecReply has all of SendOutcomes
PeerOutcomes == {"sent", "gone"}

\* lines 565-573: transcribe_audio has returned; the temporary WAV is
\* unlinked, then the length prefix of the response is sent
SendLenOn(outcomes) ==
    /\ pc["main"] = "send_len"
    /\ \E outcome \in outcomes :
         LET c1 == AfterSend(Unlinked(conn, "temp_path"), outcome)
         IN IF SendRaises(conn, outcome)
            THEN Raise(c1, MsgSend, "send")
            ELSE /\ conn' = Send(c1, Pack(Len(JsonDumps(conn.result))), FALSE)
                 /\ pc' = [pc EXCEPT !["main"] = "send_body"]
    /\ UNCHANGED <<cacheVars, histVars, sideVars>>

SendLen == SendLenOn(PeerOutcomes)

\* line 574: the response payload
SendBodyOn(outcomes) ==
    /\ pc["main"] = "send_body"
    /\ \E outcome \in outcomes :
         LET c1 == AfterSend(conn, outcome)
         IN IF SendRaises(conn, outcome)
            THEN Raise(c1, MsgSend, "send")
            ELSE /\ conn' = Send(c1, JsonDumps(conn.result), FALSE)
                 /\ pc' = [pc EXCEPT !["main"] = "close"]
    /\ UNCHANGED <<cacheVars, histVars, sideVars>>

SendBody == SendBodyOn(PeerOutcomes)

\* lines 576-580: the error reply's length prefix; a failure is swallowed
\* (line 582) and the connection is closed, whatever the reason was
ErrSendLen ==
    /\ pc["main"] = "err_send_len"
    /\ \E outcome \in SendOutcomes :
         LET raised == SendRaises(conn, outcome)
         IN /\ conn' = Send(conn, Pack(Len(JsonDumps(Failure(conn.err)))), raised)
            /\ pc' = [pc EXCEPT !["main"] = IF raised THEN "close"
                                                       ELSE "err_send_body"]
    /\ UNCHANGED <<cacheVars, histVars, sideVars>>

\* lines 581-583: the error reply's payload
ErrSendBody ==
    /\ pc["main"] = "err_send_body"
    /\ \E outcome \in SendOutcomes :
         conn' = Send(conn, JsonDumps(Failure(conn.err)), SendRaises(conn, outcome))
    /\ pc' = [pc EXCEPT !["main"] = "close"]
    /\ UNCHANGED <<cacheVars, histVars, sideVars>>

CloseConn_Leaks(n) == n

\* line 585: conn.close()
CloseConn(n) == n - 1

\* line 585 and back to line 653: conn.close(), the loop accepts again
Close ==
    /\ pc["main"] = "close"
    /\ conn' = NoConn
    /\ open_conns' = CloseConn(open_conns)
    /\ prev_faulty' = (prev_faulty \/ conn.faults # {})
    /\ pc' = [pc EXCEPT !["main"] = "accept"]
    /\ UNCHANGED <<cacheVars, nconn, progVars>>

\* ------------------------------------------------------------ warmup
\* lines 589-592: the warmup thread reads CONFIG['model']
WarmupStart ==
    /\ pc["warmup"] = "w_start"
    /\ \E k \in ModelKeys : model_key' = [model_key EXCEPT !["warmup"] = k]
    /\ pc' = [pc EXCEPT !["warmup"] = "lm_check"]
    /\ UNCHANGED <<conn, current_model, current_model_key, ret, model,
                   loader_failed, call_loads, log, histVars, sideVars>>

\* lines 594-628: the dummy transcription; any exception is only printed
WarmupEngine ==
    /\ pc["warmup"] = "w_engine"
    /\ \E ok \in BOOLEAN :
         pc' = [pc EXCEPT !["warmup"] = IF ok THEN "w_done" ELSE "w_failed"]
    \* warmup_model returns: its locals are gone
    /\ model' = [model EXCEPT !["warmup"] = NoModel]
    /\ model_key' = [model_key EXCEPT !["warmup"] = NoKey]
    /\ call_loads' = [call_loads EXCEPT !["warmup"] = 0]
    /\ UNCHANGED <<conn, current_model, current_model_key, ret,
                   loader_failed, log, histVars, sideVars>>

\* ------------------------------------------------------------ specifications
Handler ==
    \/ Accept \/ RecvLen \/ RecvBody \/ WriteWav \/ Transcribe \/ Engine
    \/ SendLen \/ SendBody \/ ErrSendLen \/ ErrSendBody \/ Close

MainNext == Handler \/ LmCheck("main") \/ LmLoad("main") \/ LmStoreModel("main")
            \/ LmStoreKey("main") \/ LmReturn("main")

Next ==
    \/ StartServer
    \/ Handler
    \/ \E t \in Threads : LmCheck(t)
    \/ \E t \in Threads : LmLoad(t)
    \/ \E t \in Threads : LmStoreModel(t)
    \/ \E t \in Threads : LmStoreKey(t)
    \/ \E t \in Threads : LmReturn(t)
    \/ WarmupStart
    \/ WarmupEngine

Spec == Init /\ [][Next]_vars

NextSeq ==
    \/ StartServerNoWarmup
    \/ Handler
    \/ LmCheck("main")
    \/ LmLoad("main")
    \/ LmStoreModel("main")
    \/ LmStoreKey("main")
    \/ LmReturn("main")

SpecSeq == Init /\ [][NextSeq]_vars

\* one server without warmup thread whose sends may fail in every way
ReplyLen == SendLenOn(SendOutcomes)
ReplyBody == SendBodyOn(SendOutcomes)

NextReply ==
    \/ StartServerNoWarmup
    \/ Accept \/ RecvLen \/ RecvBody \/ WriteWav \/ Transcribe \/ Engine
    \/ ReplyLen \/ ReplyBody \/ ErrSendLen \/ ErrSendBody \/ Close
    \/ LmCheck("main")
    \/ LmLoad("main")
    \/ LmStoreModel("main")
    \/ LmStoreKey("main")
    \/ LmReturn("main")

SpecReply == Init /\ [][NextReply]_vars

\* ------------------------------------------------------------ hotword files
\* The candidate files are changed from outside the server, between two
\* requests. A new file carries any modification time; writing to a file
\* gives it another modification time than it had.
FsCreate(p) ==
    /\ pc["main"] = "engine"
    /\ ~files[p].exists
    /\ \E m \in Mtimes : \E ls \in FileContents :
         files' = [files EXCEPT ![p] = AFile(m, ls)]
    /\ UNCHANGED <<pc, conn, cacheVars, histVars, hotwords, hotwords_mtime,
                   transcription_kwargs, hw_log, variant, cfgVars, open_conns,
                   numVars, stageVars, restVars>>

FsDelete(p) ==
    /\ pc["main"] = "engine"
    /\ files[p].exists
    /\ files' = [files EXCEPT ![p] = NoFile]
    /\ UNCHANGED <<pc, conn, cacheVars, histVars, hotwords, hotwords_mtime,
                   transcription_kwargs, hw_log, variant, cfgVars, open_conns,
                   numVars, stageVars, restVars>>

FsModify(p) ==
    /\ pc["main"] = "engine"
    /\ files[p].exists
    /\ \E m \in Mtimes \ {files[p].mtime} : \E ls \in FileContents :
         files' = [files EXCEPT ![p] = AFile(m, ls)]
    /\ UNCHANGED <<pc, conn, cacheVars, histVars, hotwords, hotwords_mtime,
                   transcription_kwargs, hw_log, variant, cfgVars, open_conns,
                   numVars, stageVars, restVars>>

\* The server with the model resident: the warmup thread has loaded the
\* default model and ended, the first request has been read and load_model
\* has returned the resident handle to transcribe_audio (line 468).
InitHot ==
    LET m == [id |-> 1, key |-> "0.6B", name |-> get_model_path("0.6B")]
    IN /\ pc = [main |-> "engine", warmup |-> "w_done"]
       /\ conn = [NoConn EXCEPT !.complete = TRUE, !.calls = 1]
       /\ current_model = m
       /\ current_model_key = "0.6B"
       /\ model_key = [t \in Threads |-> IF t = "main" THEN "0.6B" ELSE NoKey]
       /\ ret = [t \in Threads |-> NoModel]
       /\ model = [t \in Threads |-> IF t = "main" THEN m ELSE NoModel]
       /\ loader_failed = FALSE
       /\ nconn = 1
       /\ prev_faulty = FALSE
       /\ call_loads = [t \in Threads |-> 0]
       /\ log = [key |-> "0.6B", ret |-> m]
       /\ files = [p \in HotPaths |-> NoFile]
       /\ hotwords = NoHotwords
       /\ hotwords_mtime = 0
       /\ transcription_kwargs = NoKwargs
       /\ hw_log = NoHwLog
       /\ variant = "VoiceOverlay"
       /\ CONFIG = DefaultConfig
       /\ config_file = NoConfigFile
       /\ open_conns = 1
       /\ number = NoNumber
       /\ converted = NotConverted
       /\ stage_in = NoStage
       /\ stage_out = <<>>
       /\ RestIdle

\* From the return of one transcribe_audio to line 468 of the next: the
\* response is sent, the connection closed, the next one accepted, its frame
\* read in one piece and written to the WAV, and load_model returns the
\* resident handle (the steps SendLen to LmCheck, none of them failing).
NextRequest ==
    /\ pc["main"] = "send_len"
    /\ nconn < MaxRequests
    /\ current_model # NoModel
    /\ conn' = [NoConn EXCEPT !.complete = TRUE, !.calls = 1]
    /\ nconn' = nconn + 1
    /\ prev_faulty' = (prev_faulty \/ conn.faults # {})
    /\ model_key' = [model_key EXCEPT !["main"] = current_model_key]
    /\ model' = [model EXCEPT !["main"] = current_model]
    /\ log' = [key |-> current_model_key, ret |-> current_model]
    /\ pc' = [pc EXCEPT !["main"] = "engine"]
    /\ UNCHANGED <<current_model, current_model_key, ret, loader_failed,
                   call_loads, sideVars>>

NextHot ==
    \/ \E p \in HotPaths : FsCreate(p)
    \/ \E p \in HotPaths : FsDelete(p)
    \/ \E p \in HotPaths : FsModify(p)
    \/ Engine
    \/ NextRequest

SpecHot == InitHot /\ [][NextHot]_vars

\* Either variant with the model resident and a request at the engine call.
\* VoiceOverlay: as in InitHot. oleVoice.app has no warmup thread: the first
\* request has loaded the model, this is the second.
InitText ==
    LET m == [id |-> 1, key |-> "0.6B", name |-> get_model_path("0.6B")]
    IN /\ variant \in Variants
       /\ pc = [main |-> "engine",
                warmup |-> IF variant = "VoiceOverlay" THEN "w_done" ELSE "w_idle"]
       /\ conn = [NoConn EXCEPT !.complete = TRUE, !.calls = 1]
       /\ current_model = m
       /\ current_model_key = "0.6B"
       /\ model_key = [t \in Threads |-> IF t = "main" THEN "0.6B" ELSE NoKey]
       /\ ret = [t \in Threads |-> NoModel]
       /\ model = [t \in Threads |-> IF t = "main" THEN m ELSE NoModel]
       /\ loader_failed = FALSE
       /\ nconn = IF variant = "VoiceOverlay" THEN 1 ELSE 2
       /\ prev_faulty = FALSE
       /\ call_loads = [t \in Threads |-> 0]
       /\ log = [key |-> "0.6B", ret |-> m]
       /\ files = [p \in HotPaths |-> NoFile]
       /\ hotwords = NoHotwords
       /\ hotwords_mtime = 0
       /\ transcription_kwargs = NoKwargs
       /\ hw_log = NoHwLog
       /\ CONFIG = DefaultConfig
       /\ config_file = NoConfigFile
       /\ open_conns = 1
       /\ number = NoNumber
       /\ converted = NotConverted
       /\ stage_in = NoStage
       /\ stage_out = <<>>
       /\ RestIdle

NextText == EngineOn(PostRawTexts)

SpecText == InitText /\ [][NextText]_vars

\* ------------------------------------------------------------ start-up
\* The process from its start: any config.yaml, load_config, start_server of
\* either variant.
InitCfg ==
    /\ pc = [t \in Threads |-> IF t = "main" THEN "config" ELSE "w_idle"]
    /\ conn = NoConn
    /\ current_model = NoModel
    /\ current_model_key = NoKey
    /\ model_key = [t \in Threads |-> NoKey]
    /\ ret = [t \in Threads |-> NoModel]
    /\ model = [t \in Threads |-> NoModel]
    /\ loader_failed = FALSE
    /\ nconn = 0
    /\ prev_faulty = FALSE
    /\ call_loads = [t \in Threads |-> 0]
    /\ log = NoEntry
    /\ files = [p \in HotPaths |-> NoFile]
    /\ hotwords = NoHotwords
    /\ hotwords_mtime = 0
    /\ transcription_kwargs = NoKwargs
    /\ hw_log = NoHwLog
    /\ variant = NoVariant
    /\ CONFIG = DefaultConfig
    /\ config_file \in ConfigFiles
    /\ open_conns = 0
    /\ number = NoNumber
    /\ converted = NotConverted
    /\ stage_in = NoStage
    /\ stage_out = <<>>
    /\ RestIdle

NextCfg == LoadConfig \/ StartServer \/ StartServerNoWarmup

SpecCfg == InitCfg /\ [][NextCfg]_vars

\* ------------------------------------------------------------ numeral texts
\* convert_chinese_numbers alone, on the texts of Numbers
InitNum ==
    /\ pc = [t \in Threads |-> IF t = "main" THEN "bind" ELSE "w_idle"]
    /\ conn = NoConn
    /\ current_model = NoModel
    /\ current_model_key = NoKey
    /\ model_key = [t \in Threads |-> NoKey]
    /\ ret = [t \in Threads |-> NoModel]
    /\ model = [t \in Threads |-> NoModel]
    /\ loader_failed = FALSE
    /\ nconn = 0
    /\ prev_faulty = FALSE
    /\ call_loads = [t \in Threads |-> 0]
    /\ log = NoEntry
    /\ files = [p \in HotPaths |-> NoFile]
    /\ hotwords = NoHotwords
    /\ hotwords_mtime = 0
    /\ transcription_kwargs = NoKwargs
    /\ hw_log = NoHwLog
    /\ variant = NoVariant
    /\ CONFIG = DefaultConfig
    /\ config_file = NoConfigFile
    /\ open_conns = 0
    /\ number \in Numbers
    /\ converted = NotConverted
    /\ stage_in = NoStage
    /\ stage_out = <<>>
    /\ RestIdle

\* line 517: text = convert_chinese_numbers(text)
ConvertNumbers ==
    /\ ~converted.done
    /\ number # NoNumber
    /\ converted' = [done |-> TRUE, text |-> convert_chinese_numbers(number.text)]
    /\ UNCHANGED <<pc, conn, cacheVars, histVars, hotVars, variant, cfgVars,
                   open_conns, number, stageVars, restVars>>

SpecNum == InitNum /\ [][ConvertNumbers]_vars

\* convert_chinese_numbers alone, on the texts of LargeNumbers
InitLarge ==
    /\ pc = [t \in Threads |-> IF t = "main" THEN "bind" ELSE "w_idle"]
    /\ conn = NoConn
    /\ current_model = NoModel
    /\ current_model_key = NoKey
    /\ model_key = [t \in Threads |-> NoKey]
    /\ ret = [t \in Threads |-> NoModel]
    /\ model = [t \in Threads |-> NoModel]
    /\ loader_failed = FALSE
    /\ nconn = 0
    /\ prev_faulty = FALSE
    /\ call_loads = [t \in Threads |-> 0]
    /\ log = NoEntry
    /\ files = [p \in HotPaths |-> NoFile]
    /\ hotwords = NoHotwords
    /\ hotwords_mtime = 0
    /\ transcription_kwargs = NoKwargs
    /\ hw_log = NoHwLog
    /\ variant = NoVariant
    /\ CONFIG = DefaultConfig
    /\ config_file = NoConfigFile
    /\ open_conns = 0
    /\ number \in LargeNumbers
    /\ converted = NotConverted
    /\ stage_in = NoStage
    /\ stage_out = <<>>
    /\ RestIdle

SpecLarge == InitLarge /\ [][ConvertNumbers]_vars

\* convert_chinese_numbers alone, on the texts of Runs
InitRuns ==
    /\ pc = [t \in Threads |-> IF t = "main" THEN "bind" ELSE "w_idle"]
    /\ conn = NoConn
    /\ current_model = NoModel
    /\ current_model_key = NoKey
    /\ model_key = [t \in Threads |-> NoKey]
    /\ ret = [t \in Threads |-> NoModel]
    /\ model = [t \in Threads |-> NoModel]
    /\ loader_failed = FALSE
    /\ nconn = 0
    /\ prev_faulty = FALSE
    /\ call_loads = [t \in Threads |-> 0]
    /\ log = NoEntry
    /\ files = [p \in HotPaths |-> NoFile]
    /\ hotwords = NoHotwords
    /\ hotwords_mtime = 0
    /\ transcription_kwargs = NoKwargs
    /\ hw_log = NoHwLog
    /\ variant = NoVariant
    /\ CONFIG = DefaultConfig
    /\ config_file = NoConfigFile
    /\ open_conns = 0
    /\ number \in Runs
    /\ converted = NotConverted
    /\ stage_in = NoStage
    /\ stage_out = <<>>
    /\ RestIdle

SpecRuns == InitRuns /\ [][ConvertNumbers]_vars

\* ------------------------------------------------------------ single stages
\* Each normalization stage alone, called on a text and then on its own
\* result, and transcribe_audio on the engine results of RawTexts.
RECURSIVE Flatten(_)
Flatten(ts) == IF ts = <<>> THEN <<>> ELSE Head(ts) \o Flatten(Tail(ts))

\* the texts made of at most MaxTokens of the given tokens
TextsOf(tokens) ==
    {Flatten(ts) : ts \in UNION {[1..k -> tokens] : k \in 0..MaxTokens}}

\* every key of the dictionary, alone and between other characters
PhoneticTexts ==
    {<<>>} \cup {a \o PHONETIC_CORRECTIONS[i][1] \o a :
                    i \in 1..Len(PHONETIC_CORRECTIONS), a \in Around}

\* fillers of one word and of two words, another character, a mark, a space
FillerTokens == {<<21999>>, <<37027, 20010>>, <<121, 111, 117>>, <<107, 110, 111, 119>>, <<97>>, <<65292>>, <<32>>}

\* numeral characters and another character
NumberTokens == {<<19968>>, <<21313>>, <<38646>>, <<31532>>, <<97>>}

\* a doubled marker, the digit repairs, a measure word, a space
PolishTokens == {<<37027, 20010>>, <<49>>, <<20123>>, <<31859>>, <<32>>, <<97>>}

\* commas and periods in both widths, a space, another character
CommaTokens == {<<65292>>, <<44>>, <<12290>>, <<46>>, <<32>>, <<97>>}

\* question and exclamation marks in both widths, the enumeration comma, a
\* space, another character
QuestionTokens == {<<65311>>, <<63>>, <<65281>>, <<33>>, <<12289>>, <<32>>, <<97>>}

StageTexts ==
    [apply_phonetic_corrections |-> PhoneticTexts,
     remove_filler_words |-> TextsOf(FillerTokens),
     convert_chinese_numbers |-> TextsOf(NumberTokens),
     polish_sentence |-> TextsOf(PolishTokens),
     clean_punctuation |-> TextsOf(CommaTokens) \cup TextsOf(QuestionTokens),
     transcribe_audio |-> {<<>>}]

InitStage ==
    LET m == [id |-> 1, key |-> "0.6B", name |-> get_model_path("0.6B")]
    IN /\ variant = "VoiceOverlay"
       /\ pc = [main |-> "engine",
                warmup |-> IF variant = "VoiceOverlay" THEN "w_done" ELSE "w_idle"]
       /\ conn = [NoConn EXCEPT !.complete = TRUE, !.calls = 1]
       /\ current_model = m
       /\ current_model_key = "0.6B"
       /\ model_key = [t \in Threads |-> IF t = "main" THEN "0.6B" ELSE NoKey]
       /\ ret = [t \in Threads |-> NoModel]
       /\ model = [t \in Threads |-> IF t = "main" THEN m ELSE NoModel]
       /\ loader_failed = FALSE
       /\ nconn = IF variant = "VoiceOverlay" THEN 1 ELSE 2
       /\ prev_faulty = FALSE
       /\ call_loads = [t \in Threads |-> 0]
       /\ log = [key |-> "0.6B", ret |-> m]
       /\ files = [p \in HotPaths |-> NoFile]
       /\ hotwords = NoHotwords
       /\ hotwords_mtime = 0
       /\ transcription_kwargs = NoKwargs
       /\ hw_log = NoHwLog
       /\ CONFIG = DefaultConfig
       /\ config_file = NoConfigFile
       /\ open_conns = 1
       /\ number = NoNumber
       /\ converted = NotConverted
       /\ \E st \in DOMAIN StageTexts : \E tx \in StageTexts[st] :
              stage_in = [stage |-> st, text |-> tx]
       /\ stage_out = <<>>
       /\ RestIdle

\* the text the next call of the stage is given
Current == IF stage_out = <<>> THEN stage_in.text ELSE stage_out[Len(stage_out)]

Call(stage, result) ==
    /\ stage_in.stage = stage
    /\ Len(stage_out) < MaxApply
    /\ stage_out' = Append(stage_out, result)
    /\ UNCHANGED <<pc, conn, cacheVars, histVars, hotVars, variant, cfgVars,
                   numVars, open_conns, stage_in, restVars>>

\* line 511
CallPhonetic == Call("apply_phonetic_corrections", apply_phonetic_corrections(Current))
\* line 514
CallFiller == Call("remove_filler_words", remove_filler_words(Current))
\* line 517
CallNumbers == Call("convert_chinese_numbers", convert_chinese_numbers(Current))
\* line 520
CallPolish == Call("polish_sentence", polish_sentence(Current))
\* line 523
CallPunctuation == Call("clean_punctuation", clean_punctuation(Current))
\* lines 461-531
CallTranscribe == stage_in.stage = "transcribe_audio" /\ EngineOn(PostRawTexts)

NextStage ==
    \/ CallPhonetic
    \/ CallFiller
    \/ CallNumbers
    \/ CallPolish
    \/ CallPunctuation
    \/ CallTranscribe

SpecStage == InitStage /\ [][NextStage]_vars

\* The main thread runs start_server and every handler synchronously, so it
\* keeps taking its steps (clients keep connecting, the engine call of a
\* request returns). Nothing is assumed of the daemon warmup thread: it may
\* stop anywhere, which is a loader or engine call that never returns.
MainStep == StartServer \/ MainNext

SpecFair == Init /\ [][Next]_vars /\ WF_vars(MainStep)


\* ------------------------------------------------------------ properties
AtClose == pc["main"] = "close"

\* a response frame: 4-byte big-endian length, then the encoded result
Frame(r) == Pack(Len(JsonDumps(r))) \o JsonDumps(r)

MainPCs == {"bind", "exited", "accept", "recv_len", "recv_body", "wav",
            "transcribe", "lm_check", "lm_load", "lm_store_model",
            "lm_store_key", "lm_return", "engine", "send_len", "send_body",
            "err_send_len", "err_send_body", "close"}

\* C1: request-side round trip. When a complete frame was written by the
\* client and neither a socket read nor the WAV write failed, the payload is
\* handed to the transcription step on that connection, and what is handed
\* is exactly the encoded payload, however the stream was split into reads.
C1_RoundTrip ==
    /\ (pc["main"] = "transcribe" /\ conn.complete)
           => conn.handed = <<conn.payload>>
    /\ (AtClose /\ conn.complete /\ conn.faults \cap {"recv", "wav"} = {})
           => conn.calls = 1

\* C2: truncated request. When the peer closed before the whole frame had
\* arrived, the transcription step was never invoked for that connection and
\* no response byte was written.
C2_TruncatedDropped ==
    (AtClose /\ ~conn.complete /\ conn.faults \cap {"recv", "wav"} = {})
        => (conn.calls = 0 /\ conn.out = <<>>)

\* C3: per-connection protocol. On a connection with a complete request
\* frame and no socket or file error, the transcription step was invoked
\* exactly once with one decoded request and exactly one well-formed response
\* frame carrying its result was written before the close.
C3_OneRequestOneReply ==
    (AtClose /\ conn.complete /\ conn.faults \cap {"recv", "wav", "send"} = {})
        => /\ conn.calls = 1
           /\ conn.result # NoResult
           /\ conn.out = Frame(conn.result)

MainReturns == pc["main"] \in {"lm_check", "lm_return"} /\ pc'["main"] = "engine"

\* successful loader invocations of the call that returns in this step
LoadsOfCall == IF pc["main"] = "lm_check" THEN 0 ELSE call_loads["main"]

\* C5: cache identity for sequential callers. A load_model(K) that returns
\* right after a returned load_model(K) gives the same handle without
\* invoking the loader; a load_model(K2) that returns after a returned
\* load_model(K), K2 # K, has invoked the loader exactly once and leaves K2 as
\* the resident key with the new handle, loaded for K2, as the resident handle.
C5_CacheIdentity ==
    [][MainReturns =>
         LET k == model_key["main"]
             r == model'["main"]
         IN IF log.key = k
            THEN r = log.ret /\ LoadsOfCall = 0 /\ current_model' = r
            ELSE /\ LoadsOfCall = 1
                 /\ r # NoModel /\ r # log.ret /\ r.key = k
                 /\ current_model' = r /\ current_model_key' = k]_vars

C5_Witness ==
    /\ pc["main"] = "engine" /\ nconn >= 2
    /\ call_loads["main"] = 1 /\ ~loader_failed
    /\ current_model.id = 2 /\ current_model_key = model_key["main"]
    /\ model["main"] = current_model

\* the loader raises inside a load_model call of the main thread
MainLoadFails == pc["main"] = "lm_load" /\ pc'["main"] # "lm_store_model"

C7_KeyHandleConsistent ==
    /\ current_model # NoModel => current_model.key = current_model_key
    /\ \A t \in Threads : model[t] # NoModel => model[t].key = model_key[t]

\* C8: while the warmup call and the first request's call are both under way
\* for the same key, the two together have obtained one handle from the
\* loader at most: one of them loads, the other reuses the result.
C8_WarmupRaceLoadsOnce ==
    (nconn <= 1 /\ model_key["main"] # NoKey
         /\ model_key["main"] = model_key["warmup"])
        => call_loads["main"] + call_loads["warmup"] <= 1

\* the loaded handles something still refers to: the cache, a loader result
\* about to be stored, the local variable `model` of a caller
LiveHandles ==
    ({current_model} \cup {ret[t] : t \in Threads} \cup {model[t] : t \in Threads})
        \ {NoModel}

\* C9: at most one loaded model handle is held at any time.
C9_AtMostOneHandle == Cardinality(LiveHandles) <= 1

\* C10: warmup never blocks or breaks service. With the main thread running
\* and nothing assumed of the warmup thread (it may fail, or stop for ever
\* inside the loader or the engine), the listener is in its accept state
\* right after bind/listen, every connection the clients make is accepted and
\* closed, and a connection without a failure of its own is answered with a
\* success frame.
C10_WarmupNeverBlocks ==
    /\ [][(pc["main"] = "bind" /\ pc'["main"] # "exited")
             => (pc'["main"] = "accept" /\ pc'["warmup"] = "w_start")]_vars
    /\ <>(pc["main"] = "exited" \/ (pc["main"] = "accept" /\ nconn = MaxConns))
    /\ []((AtClose /\ conn.complete /\ conn.faults = {})
             => (conn.result.success /\ conn.out = Frame(conn.result)))

C10_Witness ==
    /\ AtClose /\ nconn >= 2
    /\ pc["warmup"] \in {"lm_load", "w_engine", "w_failed"}
    /\ conn.complete /\ conn.faults = {}
    /\ conn.result.success /\ conn.out = Frame(conn.result)

\* transcribe_audio has been called on this connection and has returned
TranscribeReturned ==
    /\ conn.calls >= 1
    /\ pc["main"] \in {"send_len", "send_body", "err_send_len",
                       "err_send_body", "close"}

\* C11: transcribe_audio always returns a tagged result and never raises.
\* Once it has returned there is a result, either success with a text or
\* failure with a message; an exception of the loader or of the engine is the
\* failure result carrying its message and never reaches handle_client's own
\* except branch; a success result means the engine was invoked and returned.
C11_TaggedResult ==
    /\ TranscribeReturned =>
         /\ conn.result # NoResult
         /\ conn.result.success => (conn.result.error = <<>> /\ conn.engines = 1
                                      /\ conn.faults \cap {"load", "engine"} = {})
         /\ ~conn.result.success => conn.result.text = <<>>
         /\ "load" \in conn.faults =>
                (conn.result = Failure(MsgLoad) /\ conn.engines = 0)
         /\ "engine" \in conn.faults => conn.result = Failure(MsgEngine)
    /\ (pc["main"] = "send_len" /\ conn.calls >= 1) => conn.err = <<>>

C11_Witness ==
    /\ pc["main"] = "send_len" /\ conn.calls = 1
    /\ "load" \in conn.faults /\ conn.result = Failure(MsgLoad)
    /\ conn.err = <<>>

\* transcribe_audio has returned a success built from the engine's text
TextReturned ==
    pc["main"] = "send_len" /\ conn.engines = 1 /\ conn.result # NoResult
        /\ conn.result.success

\* the five stages in order, applied to the stripped text
FiveStages(raw) ==
    clean_punctuation(polish_sentence(convert_chinese_numbers(
        remove_filler_words(apply_phonetic_corrections(Strip(raw))))))

\* C12: in either server variant, the text of every success response is the
\* result of the five stages, in the order phonetic corrections, filler
\* removal, numeral conversion, polish, punctuation cleanup, applied to the
\* engine's text stripped of surrounding white space.
C12_FivePipeline ==
    TextReturned => conn.result.text = FiveStages(conn.raw)

\* the step in which transcribe_audio calls load_hotwords (line 474)
HotCall == pc["main"] = "engine" /\ pc'["main"] # "engine"

\* the term list of a candidate file: its non-empty, non-comment lines
TermsOf(p) == Hot(ParseHotwords(files[p].lines))

\* C13: when the first existing candidate and its modification time are
\* those of the previous call, which returned a list, the call returns that
\* list without opening the file; when the modification time differs from
\* the stored one the file is opened again, and the cached list and the
\* stored time change together (both to the file's, or neither if the read
\* fails).
C13_NoReread ==
    [][HotCall =>
         LET f == FirstExisting(files)
             now == hw_log'
         IN (f # 0 /\ now.stat) =>
              /\ (hw_log.path = f /\ hw_log.mtime = files[f].mtime
                     /\ hw_log.ret.some)
                   => (~now.opened /\ now.ret = hw_log.ret
                         /\ hotwords' = hotwords)
              /\ files[f].mtime # hotwords_mtime =>
                   /\ now.opened
                   /\ IF now.read
                      THEN /\ hotwords' = TermsOf(f)
                           /\ hotwords_mtime' = files[f].mtime
                           /\ now.ret = TermsOf(f)
                      ELSE /\ hotwords' = hotwords
                           /\ hotwords_mtime' = hotwords_mtime]_vars

\* a call has returned a cached, non-empty list without opening the file
C13_Witness ==
    /\ pc["main"] = "send_len"
    /\ hw_log.path # 0 /\ hw_log.stat /\ ~hw_log.opened
    /\ hw_log.ret.some /\ hw_log.ret.terms # <<>>
    /\ hw_log.ret = TermsOf(hw_log.path)

\* C14: the list a call returns is the term list of the first candidate that
\* exists at the time of the call, or at least a list that was read from
\* that candidate; never the list read from another candidate.
C14_FirstExisting ==
    [][HotCall =>
         LET f == FirstExisting(files)
             now == hw_log'
         IN (f # 0 /\ now.ret.some) =>
              (now.ret = TermsOf(f) \/ now.source = f)]_vars

RECURSIVE JoinFirst(_, _)
JoinFirst(terms, n) ==
    IF n = 0 THEN <<>>
    ELSE IF n = 1 THEN terms[1]
    ELSE JoinFirst(terms, n - 1) \o HotSep \o terms[n]

\* C16: when the list load_hotwords returned has k >= 1 terms, the engine is
\* called with a context that is the label followed by the first
\* min(k, ContextLimit) terms, in file order, separated by a comma (and a
\* space); when it returned None or an empty list, the engine is called
\* without a context argument.
C16_ContextInjection ==
    [][(HotCall /\ conn'.engines = 1) =>
         LET terms == hw_log'.ret.terms
             k == Len(terms)
         IN IF hw_log'.ret.some /\ k >= 1
            THEN /\ transcription_kwargs'.has_context
                 /\ transcription_kwargs'.context =
                        HotLabel \o JoinFirst(terms, Min(k, ContextLimit))
            ELSE transcription_kwargs' = NoKwargs]_vars

\* the engine has been called with the first ContextLimit terms of a longer
\* list
C16_Witness ==
    /\ pc["main"] = "send_len" /\ conn.engines = 1
    /\ hw_log.ret.some /\ Len(hw_log.ret.terms) = ContextLimit + 1
    /\ transcription_kwargs.has_context
    /\ transcription_kwargs.context =
           HotLabel \o JoinFirst(hw_log.ret.terms, ContextLimit)

\* C17: whatever config.yaml holds, load_config and start_server raise
\* nothing (the server gets to its accept loop unless bind fails), the
\* configured model key is a key of the mapping and the language passed to
\* the engine is one the engine knows.
C17_ConfigNeverFails ==
    /\ pc["main"] # "crashed"
    /\ pc["main"] \in {"bind", "accept"} =>
         /\ get_model_path(CONFIG.model) \in {CONFIG.models[k] : k \in DOMAIN CONFIG.models}
         /\ mlx_lang(CONFIG) \in {"Chinese", "English"}

\* C18: at most one connection is open at any time; a connection is accepted
\* only when the one before it has been closed; response bytes are written
\* only to the one open connection, the last accepted.
C18_Sequential ==
    /\ [](open_conns <= 1)
    /\ [][nconn' # nconn => (open_conns = 0 /\ open_conns' = 1)]_vars
    /\ [][conn'.out # conn.out =>
            (nconn' = nconn /\ (conn'.out # <<>> => open_conns = 1))]_vars

\* the second connection has its response, after the first was closed
C18_Witness ==
    /\ nconn = 2 /\ open_conns = 1
    /\ pc["main"] = "close" /\ conn.out # <<>>

Decimal(n) ==
    LET k == CHOOSE d \in 1..9 : n < 10^d /\ (d = 1 \/ n >= 10^(d - 1))
    IN [i \in 1..k |-> 48 + ((n \div 10^(k - i)) % 10)]

\* C20: a text holding the usual numeral of a number n in 1..MaxNumber (either
\* zero character, 10..19 with or without the leading one), alone or between
\* other characters, is converted to the same text with the decimal string
\* of n in place of the numeral; an ordinal marker before the numeral stays
\* in front of the decimal string.
C20_NumeralConversion ==
    converted.done =>
        converted.text = number.around
                           \o (IF number.ordinal THEN <<CnOrdinal>> ELSE <<>>)
                           \o Decimal(number.n) \o number.around

\* the ordinal of twelve, written with the leading ten, has become the
\* marker followed by "12"
C20_Witness ==
    /\ converted.done
    /\ number.n = 12 /\ number.ordinal
    /\ number.text = <<CnOrdinal, CnTen, CnDigits[2]>>
    /\ converted.text = <<CnOrdinal, 49, 50>>

\* C21: a text holding the usual numeral of a number that uses the unit 10000
\* and/or the unit 100000000 (a section before 100000000, a section before
\* 10000, a remainder, each possibly absent) is converted to the decimal
\* string of the numeral's place-value integer.
C21_LargeNumerals ==
    converted.done =>
        converted.text = number.around
                           \o (IF number.ordinal THEN <<CnOrdinal>> ELSE <<>>)
                           \o Decimal(number.n) \o number.around

\* the run of numeral characters of the text of SpecRuns
RunOf(num) ==
    LET a == Len(num.around)
        o == IF num.ordinal THEN 1 ELSE 0
    IN SubSeq(num.text, a + o + 1, Len(num.text) - a)

\* a run that is no place-value numeral: two or more digit characters and no
\* unit, or a first character that is a unit other than ten
IllFormed(run) ==
    \/ Len(run) >= 2 /\ \A i \in 1..Len(run) : run[i] \in DOMAIN digit_map
    \/ run[1] \in DOMAIN unit_map \ {CnTen}

\* C22: a text whose run of numeral characters is not a well-formed numeral
\* (digits only, two or more of them; or starting with a unit other than ten)
\* comes out of convert_chinese_numbers unchanged, ordinal marker included.
C22_UnparsableUnchanged ==
    (converted.done /\ IllFormed(RunOf(number))) => converted.text = number.text

\* the text a call of the stage was given: the input for the first call, the
\* previous result for the next
Given(k) == IF k = 1 THEN stage_in.text ELSE stage_out[k - 1]

\* the calls made so far of the stage with this name
CallsOf(stage) == IF stage_in.stage = stage THEN 1..Len(stage_out) ELSE {}

\* the positions of t inside an occurrence of a filler word that has a
\* boundary character or an end of the text on each side
Bounded(t) ==
    UNION {LET e == b + Len(words[i]) - 1
           IN IF /\ e <= Len(t)
                 /\ t[b] = words[i][1]
                 /\ SubSeq(t, b, e) = words[i]
                 /\ (b = 1 \/ IsBoundary(t[b - 1]))
                 /\ (e = Len(t) \/ IsBoundary(t[e + 1]))
              THEN b..e ELSE {} :
           i \in 1..Len(words), b \in 1..Len(t)}

RECURSIVE TokenLen(_)
TokenLen(t) == IF t # <<>> /\ ~IsBoundary(t[1]) THEN 1 + TokenLen(Tail(t)) ELSE 0

\* the tokens of t (maximal runs without a boundary character) from position
\* p on, in order, leaving out those that lie inside the positions `out`
RECURSIVE TokensFrom(_, _, _)
TokensFrom(t, p, out) ==
    IF p > Len(t) THEN <<>>
    ELSE IF IsBoundary(t[p]) THEN TokensFrom(t, p + 1, out)
    ELSE LET n == TokenLen(Drop(t, p - 1))
         IN (IF p..(p + n - 1) \subseteq out THEN <<>> ELSE <<SubSeq(t, p, p + n - 1)>>)
            \o TokensFrom(t, p + n, out)

Tokens(t) == TokensFrom(t, 1, {})

\* a is b with some elements left out
RECURSIVE IsSubseq(_, _)
IsSubseq(a, b) ==
    IF a = <<>> THEN TRUE
    ELSE IF b = <<>> THEN FALSE
    ELSE IF a[1] = b[1] THEN IsSubseq(Tail(a), Tail(b))
    ELSE IsSubseq(a, Tail(b))

IsMark(c) == c \in puncts

\* a is a stretch of consecutive elements of b
IsInfix(a, b) == \E i \in 0..(Len(b) - Len(a)) : SubSeq(b, i + 1, i + Len(a)) = a

\* C23: remove_filler_words keeps every token that is not, as a whole, inside
\* a filler word bounded on both sides (so a filler word with another
\* character directly next to it stays), in order and unchanged; it adds,
\* splits and joins no tokens, and it removes punctuation only at the two
\* ends of the text.
C23_EmbeddedKept ==
    \A k \in CallsOf("remove_filler_words") :
        /\ IsSubseq(TokensFrom(Given(k), 1, Bounded(Given(k))), Tokens(stage_out[k]))
        /\ IsSubseq(Tokens(stage_out[k]), Tokens(Given(k)))
        /\ IsInfix(SelectSeq(stage_out[k], IsMark), SelectSeq(Given(k), IsMark))

\* the filler glued to another character stays, the free one is removed
C23_Witness ==
    /\ stage_in = [stage |-> "remove_filler_words", text |-> <<21999, 97, 32, 21999>>]
    /\ stage_out = <<<<21999, 97>>>>

\* C24: the result of remove_filler_words holds no filler word that is
\* bounded on both sides by an end of the text, white space or punctuation,
\* and a call of remove_filler_words on its own result changes nothing.
C24_NoBoundedFillerLeft ==
    \A k \in CallsOf("remove_filler_words") :
        /\ Bounded(stage_out[k]) = {}
        /\ k > 1 => stage_out[k] = stage_out[k - 1]

\* C25: for every (wrong, correct) pair of PHONETIC_CORRECTIONS, a text that
\* is wrong itself, or wrong between other characters, comes out of
\* apply_phonetic_corrections with correct in the place of wrong.
C25_KeysCorrected ==
    (stage_in.stage = "apply_phonetic_corrections" /\ stage_out # <<>>) =>
        \A i \in 1..Len(PHONETIC_CORRECTIONS), a \in Around :
            stage_in.text = a \o PHONETIC_CORRECTIONS[i][1] \o a
                => stage_out[1] = a \o PHONETIC_CORRECTIONS[i][2] \o a

\* C26: clean_punctuation called on its own result returns that result.
C26_PunctuationIdempotent ==
    \A k \in CallsOf("clean_punctuation") : k > 1 => stage_out[k] = stage_out[k - 1]

\* the terminal marks, each in full width and in half width: comma, period,
\* question mark, exclamation mark
MarkKinds == {{65292, 44}, {12290, 46}, {65311, 63}, {65281, 33}}

\* t is a run of two or more marks of the kind between two other characters
RunBetween(t, kind) ==
    /\ Len(t) >= 4
    /\ t[1] = 97 /\ t[Len(t)] = 97
    /\ \A i \in 2..(Len(t) - 1) : t[i] \in kind

\* C27: a run of two or more copies of one terminal mark inside a text, in
\* full width, in half width or mixed, comes out of clean_punctuation as
\* exactly one mark of that kind.
C27_RunsCollapsed ==
    (stage_in.stage = "clean_punctuation" /\ stage_out # <<>>) =>
        \A kind \in MarkKinds :
            RunBetween(stage_in.text, kind) =>
                \E m \in kind : stage_out[1] = <<97, m, 97>>

\* the marks that may not begin the result, and the commas that may not end it
EdgeMarks == {65292, 12290, 65281, 65311, 12289, 65307, 65306, 44, 46, 33, 63, 59, 58}
Commas == {65292, 44}

\* C28: the result of clean_punctuation does not begin with white space or
\* one of the marks, does not end with white space or a comma of either
\* width, and holds no two white-space characters in a row.
C28_CleanEdges ==
    \A k \in CallsOf("clean_punctuation") :
        LET out == stage_out[k]
        IN out # <<>> =>
             /\ ~IsSpace(out[1]) /\ out[1] \notin EdgeMarks
             /\ ~IsSpace(out[Len(out)]) /\ out[Len(out)] \notin Commas
             /\ \A i \in 1..(Len(out) - 1) : ~(IsSpace(out[i]) /\ IsSpace(out[i + 1]))

\* leading space and mark and the trailing comma are gone
C28_Witness ==
    /\ stage_in = [stage |-> "clean_punctuation", text |-> <<32, 65292, 97, 44>>]
    /\ stage_out = <<<<97>>>>

\* the five normalization stages
Stages == {"apply_phonetic_corrections", "remove_filler_words",
           "convert_chinese_numbers", "polish_sentence", "clean_punctuation"}

\* transcribe_audio has returned and neither load_hotwords nor the engine
\* has raised
EngineReturned ==
    /\ stage_in.stage = "transcribe_audio"
    /\ pc["main"] = "send_len" /\ conn.engines = 1 /\ conn.faults = {}

DoubledMarkers == {<<37027, 20010, 37027, 20010>>,
                   <<36825, 20010, 36825, 20010>>,
                   <<28982, 21518, 28982, 21518>>,
                   <<23601, 26159, 23601, 26159>>,
                   <<22909, 21543, 22909, 21543>>}

\* w occurs in t
Contains(t, w) == \E i \in 0..(Len(t) - Len(w)) : SubSeq(t, i + 1, i + Len(w)) = w

\* C30: the result of polish_sentence holds none of the doubled discourse
\* markers, however often the marker is repeated in the input.
C30_NoDoubledMarker ==
    \A k \in CallsOf("polish_sentence") :
        \A d \in DoubledMarkers : ~Contains(stage_out[k], d)

\* the fixed suffixes of lines 438-439
OneSuffixes == {20123, 19979}

\* the positions of t that hold a digit 1 before one of the suffixes that is
\* not the last digit of a longer number
BareOnes(t) ==
    {i \in 1..(Len(t) - 1) :
        /\ t[i] = 49 /\ t[i + 1] \in OneSuffixes
        /\ (i = 1 \/ ~IsDigit(t[i - 1]))}

\* C31: polish_sentence turns into the numeral character only a digit 1
\* that stands before one of the two suffixes and is not the last digit of a
\* longer number; every other digit of the text is still a digit in the
\* result.
C31_OnlyBareOne ==
    \A k \in CallsOf("polish_sentence") :
        Len(SelectSeq(stage_out[k], IsDigit))
            = Len(SelectSeq(Given(k), IsDigit)) - Cardinality(BareOnes(Given(k)))
\* the frames a connection may be answered with: its result or its error
ResponseFrames == {Frame(conn.result), Frame(Failure(conn.err))}

\* C32: the bytes written to a connection are always a prefix of one response
\* frame, so that nothing follows a send that failed
C32_SingleFrame ==
    \E f \in ResponseFrames : \E n \in 0..Len(f) : conn.out = Take(f, n)

\* C33: when the handling of a connection has finished, neither the
\* temporary audio file nor the temporary output file of the request is left
C33_NoTempLeft ==
    AtClose => conn.temp_path # "exists" /\ conn.output_path # "exists"

\* ------------------------------------------------------------ start_server
\* Several processes may be started on the same socket path, one after the
\* other or while another is running; a process may be interrupted (the
\* accept loop is left through the finally block) or killed (no Python code
\* runs; the kernel closes its socket and the file stays).
otherVars == <<pc, conn, cacheVars, histVars, hotVars, variant, cfgVars,
               numVars, stageVars, open_conns, cliVars>>

At(p, where) == server[p].pc = where

Goto(p, where) == server' = [server EXCEPT ![p].pc = where]

Running(p) == server[p].pc \notin {"down", "crashed", "killed"}

FileExists == socket_file # NoSocketFile

\* __main__, line 664: a process that is not running is started
StartProcess(p) ==
    /\ ~Running(p)
    /\ server' = [server EXCEPT ![p] = Ended("exists")]
    /\ UNCHANGED <<socket_file, otherVars>>

\* line 635: os.path.exists(socket_path)
CheckStale(p) ==
    /\ At(p, "exists")
    /\ Goto(p, IF FileExists THEN "unlink" ELSE "bind")
    /\ UNCHANGED <<socket_file, otherVars>>

\* line 636: os.unlink(socket_path) removes whatever file is at the path;
\* FileNotFoundError ends the process when the file went away meanwhile
UnlinkStale(p) ==
    /\ At(p, "unlink")
    /\ Goto(p, IF FileExists THEN "bind" ELSE "crashed")
    /\ socket_file' = NoSocketFile
    /\ UNCHANGED otherVars

\* server.bind creates the file; EADDRINUSE when there is one already
BindOk(file) == file = NoSocketFile

\* lines 638-640: socket, bind, listen
Bind(p) ==
    /\ At(p, "bind")
    /\ IF BindOk(socket_file)
       THEN /\ socket_file' = p
            /\ server' = [server EXCEPT ![p].pc = "banner", ![p].bound = TRUE]
       ELSE /\ socket_file' = socket_file
            /\ server' = [server EXCEPT ![p] = Ended("crashed")]
    /\ UNCHANGED otherVars

\* lines 642-649: the banner, whose CONFIG look-ups may raise outside the try
\* block, and the warmup thread
Banner(p) ==
    /\ At(p, "banner")
    /\ \E ok \in BOOLEAN :
         server' = IF ok THEN [server EXCEPT ![p].pc = "accept"]
                   ELSE [server EXCEPT ![p] = Ended("crashed")]
    /\ UNCHANGED <<socket_file, otherVars>>

\* lines 651-654: a client connects to the path and is served by the process
\* whose socket the file names
AcceptOn(p) ==
    /\ At(p, "accept")
    /\ socket_file = p
    /\ server[p].accepted < MaxAccepts
    /\ server' = [server EXCEPT ![p].accepted = @ + 1]
    /\ UNCHANGED <<socket_file, otherVars>>

\* lines 655-657: KeyboardInterrupt, or another exception of accept
Interrupt(p) ==
    /\ At(p, "accept")
    /\ Goto(p, "close")
    /\ UNCHANGED <<socket_file, otherVars>>

\* line 658: server.close()
CloseServer(p) ==
    /\ At(p, "close")
    /\ server' = [server EXCEPT ![p].pc = "fin_exists", ![p].bound = FALSE]
    /\ UNCHANGED <<socket_file, otherVars>>

\* line 659: os.path.exists(socket_path)
FinExists(p) ==
    /\ At(p, "fin_exists")
    /\ server' = IF FileExists THEN [server EXCEPT ![p].pc = "fin_unlink"]
                 ELSE [server EXCEPT ![p] = ServerDown]
    /\ UNCHANGED <<socket_file, otherVars>>

\* line 660: os.unlink(socket_path) removes whatever file is at the path;
\* FileNotFoundError when it went away meanwhile
FinUnlink(p) ==
    /\ At(p, "fin_unlink")
    /\ socket_file' = NoSocketFile
    /\ server' = [server EXCEPT ![p] = IF FileExists THEN ServerDown
                                       ELSE Ended("crashed")]
    /\ UNCHANGED otherVars

\* the process is killed: its socket is closed, the file is left behind
Kill(p) ==
    /\ Running(p)
    /\ server' = [server EXCEPT ![p] = Ended("killed")]
    /\ UNCHANGED <<socket_file, otherVars>>

NextSock ==
    \E p \in Servers :
        \/ StartProcess(p) \/ CheckStale(p) \/ UnlinkStale(p) \/ Bind(p)
        \/ Banner(p) \/ AcceptOn(p) \/ Interrupt(p) \/ CloseServer(p)
        \/ FinExists(p) \/ FinUnlink(p) \/ Kill(p)

SpecSock == Init /\ [][NextSock]_vars

BoundServers == {p \in Servers : server[p].bound}

Alone(p) == \A q \in Servers \ {p} : ~Running(q)

\* C34: a process that starts alone reaches bind with no file at the path,
\* whatever an earlier process left there; a process that has left
\* start_server through the finally block has closed its socket and leaves
\* no file; at most one process is bound to the path at any time
C34_SocketLifecycle ==
    /\ [](\A p \in Servers : (At(p, "bind") /\ Alone(p)) => ~FileExists)
    /\ [][\A p \in Servers :
            (Running(p) /\ server'[p].pc = "down")
                => (~FileExists' /\ ~server'[p].bound)]_vars
    /\ [](Cardinality(BoundServers) <= 1)

\* ------------------------------------------------------------ recording clients
\* voice_input.py runs on_hotkey in a thread of its own for every press;
\* voice_menu.py runs toggle_recording on the main thread and processes on a
\* background thread; voice_with_overlay.py runs toggle_recording, processing
\* included, in the listener thread. Line numbers are those of voice_input.py
\* unless a file is named.
serverVars == <<pc, conn, cacheVars, histVars, hotVars, variant, cfgVars,
                numVars, stageVars, open_conns, sockVars>>

\* __main__: one of the clients is started
Launch(c) ==
    /\ client = "none"
    /\ client' = c
    /\ UNCHANGED <<is_recording, recording_thread, audio_frames, handler, rec,
                   saved, serverVars>>

HandlerAt(h, where) == handler[h].pc = where

HandlerTo(h, where) == handler' = [handler EXCEPT ![h].pc = where]

\* the part of a handler that keeps the thread delivering key presses:
\* nothing in voice_input.py (on_press, lines 419-436), toggle_recording in
\* voice_menu.py (135-158), toggle_recording with process_recording in
\* voice_with_overlay.py (146-164)
InToggle(h) ==
    CASE client = "voice_menu" ->
             handler[h].pc \in {"check", "set_true", "spawn", "set_false",
                                "join", "joining"}
      [] client = "voice_with_overlay" -> handler[h].pc \notin {"idle", "done"}
      [] OTHER -> FALSE

\* on_press, lines 419-436: the hotkey is pressed and a handler is invoked
Press(h) ==
    /\ client \in Clients
    /\ HandlerAt(h, "idle")
    /\ \A g \in Presses : (g < h) = ~HandlerAt(g, "idle")
    /\ \A g \in Presses : ~InToggle(g)
    /\ HandlerTo(h, "check")
    /\ UNCHANGED <<client, is_recording, recording_thread, audio_frames, rec,
                   saved, serverVars>>

\* line 228: if not is_recording
Check(h) ==
    /\ HandlerAt(h, "check")
    /\ HandlerTo(h, IF is_recording THEN "set_false" ELSE "set_true")
    /\ UNCHANGED <<client, is_recording, recording_thread, audio_frames, rec,
                   saved, serverVars>>

\* line 231: is_recording = True
SetTrue(h) ==
    /\ HandlerAt(h, "set_true")
    /\ is_recording' = TRUE
    /\ HandlerTo(h, "spawn")
    /\ UNCHANGED <<client, recording_thread, audio_frames, rec, saved,
                   serverVars>>

\* lines 234-243: recording_thread = Thread(target=record_audio); start().
\* The thread created by handler h is thread h
Spawn(h) ==
    /\ HandlerAt(h, "spawn")
    /\ recording_thread' = h
    /\ rec' = [rec EXCEPT ![h].pc = "open"]
    /\ HandlerTo(h, "done")
    /\ UNCHANGED <<client, is_recording, audio_frames, saved, serverVars>>

\* line 249: is_recording = False
SetFalse(h) ==
    /\ HandlerAt(h, "set_false")
    /\ is_recording' = FALSE
    /\ HandlerTo(h, "join")
    /\ UNCHANGED <<client, recording_thread, audio_frames, rec, saved,
                   serverVars>>

\* line 250: recording_thread.join() is called on the thread the global
\* names now; on None it raises in voice_input.py and is skipped in the two
\* others (voice_menu.py 152, voice_with_overlay.py 160)
JoinCall(h) ==
    /\ HandlerAt(h, "join")
    /\ handler' = [handler EXCEPT
                     ![h].target = recording_thread,
                     ![h].pc = IF recording_thread # NoThread THEN "joining"
                               ELSE IF client = "voice_input" THEN "done"
                               ELSE "save"]
    /\ UNCHANGED <<client, is_recording, recording_thread, audio_frames, rec,
                   saved, serverVars>>

JoinTimeout_None == {}

\* the clients whose join gives up: join(timeout=2) in voice_menu.py 153 and
\* voice_with_overlay.py 161, join() in voice_input.py 250
JoinTimeout == {"voice_menu", "voice_with_overlay"}

\* join returns: the thread has ended, or the two seconds are over
JoinReturn(h) ==
    /\ HandlerAt(h, "joining")
    /\ rec[handler[h].target].pc = "done" \/ client \in JoinTimeout
    /\ HandlerTo(h, "save")
    /\ UNCHANGED <<client, is_recording, recording_thread, audio_frames, rec,
                   saved, serverVars>>

\* lines 256-264, save_audio 140-147 (process_recording 98-107 in
\* voice_menu.py, 111-120 in voice_with_overlay.py): the frames the global
\* holds now are written to the audio file of the recording that was stopped
Save(h) ==
    /\ HandlerAt(h, "save")
    /\ saved' = Append(saved, [session |-> handler[h].target,
                               frames |-> audio_frames])
    /\ HandlerTo(h, "transcribe")
    /\ UNCHANGED <<client, is_recording, recording_thread, audio_frames, rec,
                   serverVars>>

\* lines 268-330: the file is transcribed, the text typed, the file removed
Finish(h) ==
    /\ HandlerAt(h, "transcribe")
    /\ HandlerTo(h, "done")
    /\ UNCHANGED <<client, is_recording, recording_thread, audio_frames, rec,
                   saved, serverVars>>

RecAt(r, where) == rec[r].pc = where

\* record_audio, lines 88-103: the stream is opened and audio_frames is
\* rebound to a new list; opening may raise, which ends the thread
Open(r) ==
    /\ RecAt(r, "open")
    /\ \/ /\ audio_frames' = <<>>
          /\ rec' = [rec EXCEPT ![r].pc = "loop"]
       \/ /\ audio_frames' = audio_frames
          /\ rec' = [rec EXCEPT ![r].pc = "done"]
    /\ UNCHANGED <<client, is_recording, recording_thread, handler, saved,
                   serverVars>>

\* line 105: while is_recording (and, voice_menu.py 54 and
\* voice_with_overlay.py 67, while fewer than 60 seconds have passed)
Loop(r) ==
    /\ RecAt(r, "loop")
    /\ \/ /\ is_recording /\ rec[r].captured < MaxFrames
          /\ rec' = [rec EXCEPT ![r].pc = "read"]
       \/ /\ ~is_recording \/ client # "voice_input"
          /\ rec' = [rec EXCEPT ![r].pc = "done"]
    /\ UNCHANGED <<client, is_recording, recording_thread, audio_frames,
                   handler, saved, serverVars>>

\* lines 106-130: stream.read returns and the frame is appended to the list
\* the global names now; in voice_input.py silence or the maximum duration
\* may then end the recording (is_recording = False; break); an exception
\* of stream.read ends the loop
Read(r) ==
    /\ RecAt(r, "read")
    /\ \/ /\ audio_frames' = Append(audio_frames, r)
          /\ rec' = [rec EXCEPT ![r].pc = "loop", ![r].captured = @ + 1]
          /\ is_recording' = is_recording
       \/ /\ client = "voice_input"
          /\ audio_frames' = Append(audio_frames, r)
          /\ rec' = [rec EXCEPT ![r].pc = "done", ![r].captured = @ + 1]
          /\ is_recording' = FALSE
       \/ /\ audio_frames' = audio_frames
          /\ rec' = [rec EXCEPT ![r].pc = "done"]
          /\ is_recording' = is_recording
    /\ UNCHANGED <<client, recording_thread, handler, saved, serverVars>>

NextClient ==
    \/ \E c \in Clients : Launch(c)
    \/ \E h \in Presses :
         \/ Press(h) \/ Check(h) \/ SetTrue(h) \/ Spawn(h) \/ SetFalse(h)
         \/ JoinCall(h) \/ JoinReturn(h) \/ Save(h) \/ Finish(h)
    \/ \E r \in Presses : Open(r) \/ Loop(r) \/ Read(r)

SpecClient == Init /\ [][NextClient]_vars

\* the record_audio threads that are running
Capturing == {r \in Presses : rec[r].pc \in {"open", "loop", "read"}}

\* the handlers that are saving or transcribing a recording
Processing == {h \in Presses : handler[h].pc \in {"save", "transcribe"}}

\* C35: the front end is recording or processing, never both: no recording
\* thread runs while a recording is being saved or transcribed
C35_RecordingThenProcessing == Capturing = {} \/ Processing = {}

\* the record_audio threads that may append a frame
Appending == {r \in Presses : rec[r].pc \in {"loop", "read"}}

\* the handlers that have asked thread r to stop and wait for it
Joining(r) == {h \in Presses : HandlerAt(h, "joining") /\ handler[h].target = r}

\* C36: in voice_input.py at most one record_audio thread appends frames at
\* any time, and a thread that a handler waits for in join takes no further
\* turn of its loop
C36_OneRecorder ==
    /\ [](client = "voice_input" => Cardinality(Appending) <= 1)
    /\ [][\A r \in Presses :
            (client = "voice_input" /\ Joining(r) # {} /\ RecAt(r, "loop"))
                => rec'[r].pc # "read"]_vars

\* the threads whose frames are in the file
FramesOf(file) == {file.frames[j] : j \in 1..Len(file.frames)}

\* the threads some of whose frames have been written to an audio file
SavedFrames == UNION {FramesOf(saved[k]) : k \in 1..Len(saved)}

\* C37: in voice_input.py the frames of a recording are not dropped: when
\* record_audio empties audio_frames for the next recording, the frames it
\* held have been written to an audio file
C37_FramesSaved ==
    [][(client = "voice_input" /\ audio_frames # <<>> /\ audio_frames' = <<>>)
          => \A i \in 1..Len(audio_frames) : audio_frames[i] \in SavedFrames]_vars

\* the frames thread r has captured
Session(r) == [i \in 1..rec[r].captured |-> r]

\* C38: in voice_menu.py and voice_with_overlay.py the audio file of a
\* recording holds exactly the frames its thread captured, and the frames
\* are read when no thread can append
C38_FileMatchesSession ==
    /\ [](client \in JoinTimeout =>
            \A k \in 1..Len(saved) :
                /\ saved[k].session # NoThread
                /\ saved[k].frames = Session(saved[k].session))
    /\ [][(client \in JoinTimeout /\ Len(saved') > Len(saved))
            => Appending = {}]_vars

====
